---- MODULE Spec2Model ----
(***************************************************************************)
(* Growth control of lesions on the leaves of an MTG (alinea.alep).        *)
(*                                                                         *)
(* The canopy is a two-blade MTG.  Every control() of growth_control.py    *)
(* is one action that walks all the blades, computes the area available on *)
(* each blade and calls control_growth on the lesions of the blade.        *)
(*                                                                         *)
(* Numbers.  The program computes on floats.  The model computes on a      *)
(* fixed-point lattice: every quantity is an integer number of units, one  *)
(* unit being the finest step the model distinguishes.  round(x, 14) keeps *)
(* the multiples of Q14 units and round(x, 10) the multiples of Q10 units, *)
(* with Q14 dividing Q10, so that a demand or a surface can lie off both   *)
(* grids, on the 14-decimal grid only, or on both.  A quotient that the    *)
(* program rounds is rounded once, from its exact rational value.          *)
(*                                                                         *)
(* The other components of the program have a specification each:          *)
(*   PlacementSpec  the placement of dispersal units (infection_control),  *)
(*   LoopSpec       the body of the simulation loop (annual_loop_rust),    *)
(*   GateSpec       the calendar time gate of the dispersal clock,         *)
(*   ImpactSpec     true_area_impacted as a function,                      *)
(*   FloatSpec      the sums of PriorityGrowthControl on rounding floats,  *)
(*   AccountSpec    the areas of a leaf element (disease_outputs),         *)
(*   CompetitionSpec  the four allocators on cohorts of two fungi,         *)
(*   BorderSpec     manage_senescence_border on rounding floats.           *)
(* A specification moves the variables of its component only.              *)
(***************************************************************************)
EXTENDS Integers, Sequences, FiniteSets

(***************************************************************************)
(* Bounds of the model.                                                    *)
(***************************************************************************)
MaxLesions == 3      \* lesions on the whole MTG

(***************************************************************************)
(* Fixed-point lattice.                                                    *)
(***************************************************************************)
Q14 == 4             \* step of round(x, 14), in units

Q10 == 40            \* step of round(x, 10), in units

Q16 == 1             \* step of round(x, 16), in units

ONE == 400           \* the number 1.0, in units

Abs(x) == IF x < 0 THEN -x ELSE x

Min(a, b) == IF a <= b THEN a ELSE b

Max(a, b) == IF a >= b THEN a ELSE b

\* round(num/den) to the nearest multiple of q, halves away from zero
\* (Python 2 round); den > 0.
RoundDiv(num, den, q) ==
    IF num >= 0
    THEN q * ((2 * num + q * den) \div (2 * q * den))
    ELSE -(q * ((2 * (-num) + q * den) \div (2 * q * den)))

(***************************************************************************)
(* Lesion statuses (fungus.INCUBATING ... ), compared by order.            *)
(***************************************************************************)
INCUBATING == 0

CHLOROTIC == 1

SPORULATING == 3

(***************************************************************************)
(* The MTG: two blades, their components, labels.                          *)
(***************************************************************************)
Blades == {1, 2}

Vertices == {11, 12, 21, 22}

components(blade) == IF blade = 1 THEN <<11, 12>> ELSE <<21, 22>>

labels(vid) == IF vid \in Blades THEN "blade"
               ELSE IF vid = 22 THEN "StemElement" ELSE "LeafElement"

\* Vertices that carry lesions in the model.
Hosts == {11, 12, 21}

(***************************************************************************)
(* What the canopy model gives a vertex: geometry or not, areas, lengths.  *)
(***************************************************************************)
Green    == [geom |-> TRUE,  area |-> 80, green_area |-> 80, senesced_area |-> 0,
             length |-> 20, senesced_length |-> 0]

HalfSen  == [geom |-> TRUE,  area |-> 80, green_area |-> 40, senesced_area |-> 40,
             length |-> 20, senesced_length |-> 10]

Senesced == [geom |-> TRUE,  area |-> 80, green_area |-> 0,  senesced_area |-> 80,
             length |-> 20, senesced_length |-> 20]

ZeroArea == [geom |-> TRUE,  area |-> 0,  green_area |-> 0,  senesced_area |-> 0,
             length |-> 0,   senesced_length |-> 0]

NoGeom   == [geom |-> FALSE, area |-> 80, green_area |-> 80, senesced_area |-> 0,
             length |-> 20, senesced_length |-> 0]

Profiles(vid) ==
    CASE vid = 11 -> {HalfSen, ZeroArea}
      [] vid = 12 -> {Senesced, NoGeom}
      [] vid = 21 -> {Green, Senesced}
      [] OTHER    -> {Green}

Canopies == {c \in [Vertices -> {Green, HalfSen, Senesced, ZeroArea, NoGeom}] :
                \A v \in Vertices : c[v] \in Profiles(v)}

(***************************************************************************)
(* What the fungus model gives a lesion.                                   *)
(***************************************************************************)
\* a fresh lesion, incubating, no surface yet
Fresh ==
    [status |-> INCUBATING, growth_demand |-> 36, surface |-> 0,
     surface_non_senescent |-> 0, potential_surface |-> 36,
     nb_lesions_non_sen |-> 1]

\* a young chlorotic lesion
Young ==
    [status |-> CHLOROTIC, growth_demand |-> 24, surface |-> 8,
     surface_non_senescent |-> 8, potential_surface |-> 32,
     nb_lesions_non_sen |-> 1]

\* a group of two sporulating lesions, nearly full grown; its demand lies
\* off the 14-decimal grid
Grown ==
    [status |-> SPORULATING, growth_demand |-> 7, surface |-> 40,
     surface_non_senescent |-> 40, potential_surface |-> 47,
     nb_lesions_non_sen |-> 2]

\* a lesion overtaken by senescence
Dead ==
    [status |-> SPORULATING, growth_demand |-> 0, surface |-> 50,
     surface_non_senescent |-> 0, potential_surface |-> 50,
     nb_lesions_non_sen |-> 0]

LesionKinds == {Fresh, Young, Grown, Dead}

VARIABLES
    geometry,         \* g.property('geometry'): the vertices that have one
    area,             \* g.property('area')
    green_area,       \* g.property('green_area')
    senesced_area,    \* g.property('senesced_area')
    lengths,          \* g.property('length')
    senesced_lengths, \* g.property('senesced_length')
    lesions,          \* g.property('lesions'): vertex -> list of lesions
    policy,           \* the control() that ran last, "none" before any
    healthy,          \* blade -> leaf_healthy_area computed by the last control()
    calls,            \* blade -> control_growth calls of the last control()
    responses,        \* blade -> senescence_response calls of the last control()
    raised,           \* per blade, the exception it ended the last control() with
    suspended         \* the blades on which the last control() stopped in the
                      \* debugger, waiting for input

\* The state of the other components of the program.  Each specification
\* of this module moves the variables of its own component and leaves the
\* others at rest.
VARIABLES
    dispersal_units,  \* g.property('dispersal_units'): vertex -> list of DUs
    placement,        \* <<the DU lists handed to the infection control()>>
                      \* when it ran last, <<>> otherwise
    clocks,           \* the three clock values of the current loop iteration
    pc,               \* the next step of the loop body of run_simulation
    log,              \* the steps the current loop iteration has run
    gate,             \* the calendar time gate: its accumulator and its fires
    args,             \* the arguments of a function under study
    result            \* what the function returned for args

mtg == <<geometry, area, green_area, senesced_area, lengths, senesced_lengths,
         lesions, policy, healthy, calls, responses, raised, suspended>>

placing == <<dispersal_units, placement>>

looping == <<clocks, pc, log>>

computing == <<args, result>>

vars == <<mtg, placing, looping, gate, computing>>

canopy == <<geometry, area, green_area, senesced_area, lengths, senesced_lengths>>

outcome == <<policy, healthy, calls, responses, raised, suspended>>

NoCalls == [b \in Blades |-> <<>>]

NoHealthy == [b \in {} |-> 0]

NoRaise == [b \in Blades |-> "none"]

\* The components at rest.
MtgAtRest ==
    /\ geometry = {}
    /\ area = [v \in Vertices |-> 0]
    /\ green_area = [v \in Vertices |-> 0]
    /\ senesced_area = [v \in Vertices |-> 0]
    /\ lengths = [v \in Vertices |-> 0]
    /\ senesced_lengths = [v \in Vertices |-> 0]
    /\ lesions = [v \in Vertices |-> <<>>]
    /\ policy = "none"
    /\ healthy = NoHealthy
    /\ calls = NoCalls
    /\ responses = NoCalls
    /\ raised = NoRaise
    /\ suspended = {}

PlacingAtRest ==
    /\ dispersal_units = [v \in Vertices |-> <<>>]
    /\ placement = <<>>

LoopingAtRest ==
    /\ clocks = <<>>
    /\ pc = "done"
    /\ log = <<>>

GateAtRest == gate = <<>>

ComputingAtRest ==
    /\ args = <<>>
    /\ result = <<>>


(***************************************************************************)
(* Helpers on lists.                                                       *)
(***************************************************************************)
RECURSIVE SumSeq(_)
SumSeq(s) == IF s = <<>> THEN 0 ELSE Head(s) + SumSeq(Tail(s))

StartsWith(str, prefix) ==
    \/ str = prefix
    \/ prefix = "LeafElement" /\ str \in {"LeafElement", "LeafElement1"}
    \/ prefix = "blade" /\ str \in {"blade", "blade1"}

\* leaf = [vid for vid in g.components(blade)
\*         if labels[vid].startswith(label) and vid in geom]
Leaf(blade) ==
    SelectSeq(components(blade),
              LAMBDA vid : StartsWith(labels(vid), "LeafElement") /\ vid \in geometry)

\* lesions = {k:v for k,v in g.property('lesions').iteritems() if len(v)>0.}
InLesions(vid) == Len(lesions[vid]) > 0

\* leaf_lesions = sum([lesions[lf] for lf in leaf if lf in lesions], []);
\* a lesion is named by its vertex and its place in the vertex's list.
RECURSIVE LeafLesions(_)
LeafLesions(leaf) ==
    IF leaf = <<>> THEN <<>>
    ELSE [i \in 1..Len(lesions[Head(leaf)]) |-> <<Head(leaf), i>>]
         \o LeafLesions(Tail(leaf))

Les(l) == lesions[l[1]][l[2]]

Demand(l) == Les(l).growth_demand

TotalDemand(ls) == SumSeq([i \in 1..Len(ls) |-> Demand(ls[i])])

LesSurf(ls) == SumSeq([i \in 1..Len(ls) |-> Les(ls[i]).surface])

LeafSum(prop, leaf) == SumSeq([i \in 1..Len(leaf) |-> prop[leaf[i]]])

\* l.control_growth(growth_offer=...): one entry of the trace of calls
Call(l, growth_offer) == [vid |-> l[1], idx |-> l[2], growth_offer |-> growth_offer]

(***************************************************************************)
(* leaf_healthy_area (growth_control.py 52-59 and 97-104).                 *)
(* ratio_green is the rational rg[1]/rg[2]; the healthy area is rounded    *)
(* from its exact value.                                                   *)
(***************************************************************************)
RatioGreen(leaf_green_area, leaf_area) ==
    IF leaf_area > 0 THEN <<Min(leaf_area, leaf_green_area), leaf_area>>
    ELSE <<0, 1>>

\* green_lesion_area, as a rational over the denominator of ratio_green
GreenLesionArea(les_surf, rg, leaf_senesced_area) ==
    IF leaf_senesced_area > les_surf
    THEN <<les_surf * rg[1], rg[2]>>
    ELSE <<(les_surf - leaf_senesced_area) * rg[2], rg[2]>>

\* Faulty variant of ClampRound10: the rounded area is not clamped at 0.
Round10(num, den) == RoundDiv(num, den, Q10)

\* max(0., round(leaf_healthy_area, 10)) of the rational num/den
ClampRound10(num, den) == Max(0, RoundDiv(num, den, Q10))

LeafHealthyArea(leaf) ==
    LET leaf_lesions == LeafLesions(leaf)
        les_surf == LesSurf(leaf_lesions)
        leaf_area == LeafSum(area, leaf)
        leaf_green_area == LeafSum(green_area, leaf)
        leaf_senesced_area == LeafSum(senesced_area, leaf)
        rg == RatioGreen(leaf_green_area, leaf_area)
        gla == GreenLesionArea(les_surf, rg, leaf_senesced_area)
    IN  ClampRound10((leaf_area - leaf_senesced_area) * gla[2] - gla[1], gla[2])

(***************************************************************************)
(* NoPriorityGrowthControl.control on one blade: the healthy area and the  *)
(* control_growth calls in the order the code makes them.                  *)
(***************************************************************************)
\* Faulty variant of Ration: the share is truncated to the 14-decimal grid.
RationTruncated(available, demand, total) ==
    Q14 * ((available * demand) \div (Q14 * total))

\* round(leaf_healthy_area * l.growth_demand / total_demand, 14)
Ration(available, demand, total) == RoundDiv(available * demand, total, Q14)

\* Faulty variant of ZeroOffers: the lesions that get nothing are not called.
NoOffers(ls) == <<>>

\* for l in ls: l.control_growth(growth_offer=0.)
ZeroOffers(ls) == [i \in 1..Len(ls) |-> Call(ls[i], 0)]

\* for l in ls: l.control_growth(growth_offer=l.growth_demand)
FullOffers(ls) == [i \in 1..Len(ls) |-> Call(ls[i], Demand(ls[i]))]

\* for l in ls: l.control_growth(round(available * l.growth_demand / total, 14))
RationedOffers(ls, available, total) ==
    [i \in 1..Len(ls) |-> Call(ls[i], Ration(available, Demand(ls[i]), total))]

\* Faulty variant of NoPriorityOffers: the full demand is rounded like a rationed offer.
NoPriorityOffersRounded(leaf_lesions, leaf_healthy_area) ==
    LET total_demand == TotalDemand(leaf_lesions) IN
    IF total_demand > leaf_healthy_area
    THEN IF total_demand = 0 /\ leaf_lesions # <<>>
         THEN [calls |-> <<>>, raised |-> "ZeroDivisionError"]
         ELSE [calls |-> RationedOffers(leaf_lesions, leaf_healthy_area, total_demand),
               raised |-> "none"]
    ELSE [calls |-> [i \in 1..Len(leaf_lesions) |->
                       Call(leaf_lesions[i], RoundDiv(Demand(leaf_lesions[i]), 1, Q14))],
          raised |-> "none"]

\* growth_control.py 61-74: the calls and the exception that ends them; a
\* division by a total demand of 0 raises ZeroDivisionError
NoPriorityOffers(leaf_lesions, leaf_healthy_area) ==
    LET total_demand == TotalDemand(leaf_lesions) IN
    IF total_demand > leaf_healthy_area
    THEN IF total_demand = 0 /\ leaf_lesions # <<>>
         THEN [calls |-> <<>>, raised |-> "ZeroDivisionError"]
         ELSE [calls |-> RationedOffers(leaf_lesions, leaf_healthy_area, total_demand),
               raised |-> "none"]
    ELSE [calls |-> FullOffers(leaf_lesions), raised |-> "none"]

NoPriorityBlade(blade) ==
    LET leaf == Leaf(blade)
        leaf_healthy_area == LeafHealthyArea(leaf)
        res == NoPriorityOffers(LeafLesions(leaf), leaf_healthy_area)
    IN
    IF Len(leaf) > 0
    THEN [healthy |-> {leaf_healthy_area},
          calls |-> res.calls,
          responses |-> <<>>,
          senesced |-> senesced_lengths,
          raised |-> res.raised]
    ELSE [healthy |-> {}, calls |-> <<>>, responses |-> <<>>,
          senesced |-> senesced_lengths, raised |-> "none"]

(***************************************************************************)
(* PriorityGrowthControl.control on one blade.                             *)
(***************************************************************************)
IsPrior(l) == Les(l).status >= CHLOROTIC

PriorLesions(leaf_lesions) == SelectSeq(leaf_lesions, IsPrior)

NonPriorLesions(leaf_lesions) == SelectSeq(leaf_lesions, LAMBDA l : ~IsPrior(l))

\* Faulty variant of PriorityOffers: the non-prior lesions share the whole healthy
\* area, not what the prior lesions leave.
PriorityOffersWhole(leaf_lesions, leaf_healthy_area) ==
    LET total_demand == TotalDemand(leaf_lesions)
        prior_lesions == PriorLesions(leaf_lesions)
        non_prior_lesions == NonPriorLesions(leaf_lesions)
        prior_demand == TotalDemand(prior_lesions)
        non_prior_demand == TotalDemand(non_prior_lesions)
    IN  IF total_demand > leaf_healthy_area
        THEN IF prior_demand > leaf_healthy_area
             THEN IF prior_demand = 0 /\ prior_lesions # <<>>
                  THEN [calls |-> ZeroOffers(non_prior_lesions),
                        raised |-> "ZeroDivisionError"]
                  ELSE [calls |-> ZeroOffers(non_prior_lesions)
                                  \o RationedOffers(prior_lesions, leaf_healthy_area,
                                                    prior_demand),
                        raised |-> "none"]
             ELSE IF non_prior_demand < leaf_healthy_area - prior_demand
                  THEN [calls |-> FullOffers(prior_lesions),
                        raised |-> "AssertionError"]
                  ELSE IF non_prior_demand = 0 /\ non_prior_lesions # <<>>
                  THEN [calls |-> FullOffers(prior_lesions),
                        raised |-> "ZeroDivisionError"]
                  ELSE [calls |-> FullOffers(prior_lesions)
                                  \o RationedOffers(non_prior_lesions, leaf_healthy_area,
                                                    non_prior_demand),
                        raised |-> "none"]
        ELSE [calls |-> FullOffers(leaf_lesions), raised |-> "none"]

\* Faulty variant of PriorityOffers: the prior lesions are rationed against the demand
\* of the whole blade, not against their own.
PriorityOffersDiluted(leaf_lesions, leaf_healthy_area) ==
    LET total_demand == TotalDemand(leaf_lesions)
        prior_lesions == PriorLesions(leaf_lesions)
        non_prior_lesions == NonPriorLesions(leaf_lesions)
        prior_demand == TotalDemand(prior_lesions)
        non_prior_demand == TotalDemand(non_prior_lesions)
    IN  IF total_demand > leaf_healthy_area
        THEN IF prior_demand > leaf_healthy_area
             THEN IF total_demand = 0 /\ prior_lesions # <<>>
                  THEN [calls |-> ZeroOffers(non_prior_lesions),
                        raised |-> "ZeroDivisionError"]
                  ELSE [calls |-> ZeroOffers(non_prior_lesions)
                                  \o RationedOffers(prior_lesions, leaf_healthy_area,
                                                    total_demand),
                        raised |-> "none"]
             ELSE IF non_prior_demand < leaf_healthy_area - prior_demand
                  THEN [calls |-> FullOffers(prior_lesions),
                        raised |-> "AssertionError"]
                  ELSE IF non_prior_demand = 0 /\ non_prior_lesions # <<>>
                  THEN [calls |-> FullOffers(prior_lesions),
                        raised |-> "ZeroDivisionError"]
                  ELSE [calls |-> FullOffers(prior_lesions)
                                  \o RationedOffers(non_prior_lesions,
                                                    leaf_healthy_area - prior_demand,
                                                    non_prior_demand),
                        raised |-> "none"]
        ELSE [calls |-> FullOffers(leaf_lesions), raised |-> "none"]

\* growth_control.py 106-128: the calls and the exception that ends them
PriorityOffers(leaf_lesions, leaf_healthy_area) ==
    LET total_demand == TotalDemand(leaf_lesions)
        prior_lesions == PriorLesions(leaf_lesions)
        non_prior_lesions == NonPriorLesions(leaf_lesions)
        prior_demand == TotalDemand(prior_lesions)
        non_prior_demand == TotalDemand(non_prior_lesions)
    IN  IF total_demand > leaf_healthy_area
        THEN IF prior_demand > leaf_healthy_area
             THEN IF prior_demand = 0 /\ prior_lesions # <<>>
                  THEN [calls |-> ZeroOffers(non_prior_lesions),
                        raised |-> "ZeroDivisionError"]
                  ELSE [calls |-> ZeroOffers(non_prior_lesions)
                                  \o RationedOffers(prior_lesions, leaf_healthy_area,
                                                    prior_demand),
                        raised |-> "none"]
             ELSE IF non_prior_demand < leaf_healthy_area - prior_demand
                  THEN [calls |-> FullOffers(prior_lesions),
                        raised |-> "AssertionError"]
                  ELSE IF non_prior_demand = 0 /\ non_prior_lesions # <<>>
                  THEN [calls |-> FullOffers(prior_lesions),
                        raised |-> "ZeroDivisionError"]
                  ELSE [calls |-> FullOffers(prior_lesions)
                                  \o RationedOffers(non_prior_lesions,
                                                    leaf_healthy_area - prior_demand,
                                                    non_prior_demand),
                        raised |-> "none"]
        ELSE [calls |-> FullOffers(leaf_lesions), raised |-> "none"]

PriorityBlade(blade) ==
    LET leaf == Leaf(blade)
        leaf_healthy_area == LeafHealthyArea(leaf)
        res == PriorityOffers(LeafLesions(leaf), leaf_healthy_area)
    IN  IF Len(leaf) > 0
        THEN [healthy |-> {leaf_healthy_area},
              calls |-> res.calls,
              responses |-> <<>>,
              senesced |-> senesced_lengths,
              raised |-> res.raised]
        ELSE [healthy |-> {}, calls |-> <<>>, responses |-> <<>>,
              senesced |-> senesced_lengths, raised |-> "none"]

(***************************************************************************)
(* GeometricCircleCompetition.                                             *)
(***************************************************************************)
EXPSCALE == 10000    \* exp(-x) is computed to four decimals

\* exp(-xs/EXPSCALE) * EXPSCALE for 0 <= xs: the series to the fifth power on
\* [0, 1/2], squaring above.
RECURSIVE ExpNeg(_)
ExpNeg(xs) ==
    IF 2 * xs > EXPSCALE
    THEN LET h == ExpNeg(xs \div 2)
             g == ExpNeg(xs - xs \div 2)
         IN  (h * g) \div EXPSCALE
    ELSE LET t2 == (xs * xs) \div (2 * EXPSCALE)
             t3 == (t2 * xs) \div (3 * EXPSCALE)
             t4 == (t3 * xs) \div (4 * EXPSCALE)
             t5 == (t4 * xs) \div (5 * EXPSCALE)
         IN  EXPSCALE - xs + t2 - t3 + t4 - t5

\* Faulty variant of true_area_impacted: the lesions do not overlap.
TrueAreaSummed(nb_lesions, available_area, mean) ==
    IF available_area > 0
    THEN Min(available_area, RoundDiv(nb_lesions * mean[1], mean[2], 1))
    ELSE 0

\* available_area*(1-np.minimum(1.,np.exp(-nb_lesions*mean_lesion_size/available_area)))
\* with mean_lesion_size the rational mean[1]/mean[2]
true_area_impacted(nb_lesions, available_area, mean) ==
    IF available_area > 0
    THEN LET xs == RoundDiv(nb_lesions * mean[1] * EXPSCALE,
                            mean[2] * available_area, 1)
             e == Min(EXPSCALE, ExpNeg(xs))
         IN  RoundDiv(available_area * (EXPSCALE - e), EXPSCALE, 1)
    ELSE 0

\* while new_length > 0: n_l = min(t_ls[idx],new_length); s_ls[idx] = n_l;
\*                       new_length -= n_l; idx -= 1
\* with idx = -k; indexing before the first element raises IndexError.
RECURSIVE Redistribute(_, _, _, _)
Redistribute(s_ls, t_ls, new_length, k) ==
    IF new_length > 0
    THEN IF k > Len(t_ls)
         THEN [s_ls |-> s_ls, raised |-> "IndexError"]
         ELSE LET at == Len(t_ls) + 1 - k
                  n_l == Min(t_ls[at], new_length)
              IN  Redistribute([s_ls EXCEPT ![at] = n_l], t_ls, new_length - n_l, k + 1)
    ELSE [s_ls |-> s_ls, raised |-> "none"]

\* for lf in leaf: for l in lesions[lf]: l.senescence_response(senesced_lengths[lf])
\* lesions[lf] raises KeyError on a vertex without lesion.
RECURSIVE Respond(_, _)
Respond(leaf, senesced) ==
    IF leaf = <<>> THEN [responses |-> <<>>, raised |-> "none"]
    ELSE IF ~InLesions(Head(leaf)) THEN [responses |-> <<>>, raised |-> "KeyError"]
    ELSE LET rest == Respond(Tail(leaf), senesced) IN
         [responses |->
             [i \in 1..Len(lesions[Head(leaf)]) |->
                 [vid |-> Head(leaf), idx |-> i,
                  senesced_length |-> senesced[Head(leaf)]]]
             \o rest.responses,
          raised |-> rest.raised]

\* manage_senescence_border(leaf, r, ...) with r the rational r[1]/r[2]
manage_senescence_border(leaf, r) ==
    LET s_ls == [i \in 1..Len(leaf) |-> senesced_lengths[leaf[i]]]
        s_l == SumSeq(s_ls)
        t_ls == [i \in 1..Len(leaf) |-> lengths[leaf[i]]]
        t_l == SumSeq(t_ls)
        new_length == t_l - RoundDiv(r[1] * (t_l - s_l), r[2], 1)
        loop == Redistribute(s_ls, t_ls, new_length, 1)
        updated == [v \in Vertices |->
                      IF \E i \in 1..Len(leaf) : leaf[i] = v
                      THEN loop.s_ls[CHOOSE i \in 1..Len(leaf) : leaf[i] = v]
                      ELSE senesced_lengths[v]]
        resp == Respond(leaf, updated)
    IN  IF loop.raised # "none"
        THEN [senesced |-> senesced_lengths, responses |-> <<>>,
              raised |-> loop.raised]
        ELSE [senesced |-> updated, responses |-> resp.responses,
              raised |-> resp.raised]

\* Faulty variant of GeometricOffers: a positive offer is split evenly.
GeometricOffersEven(leaf_lesions, offer, total_demand, nb_lesions) ==
    [i \in 1..Len(leaf_lesions) |->
        Call(leaf_lesions[i],
             IF offer > 0 /\ total_demand > 0
             THEN RoundDiv(offer, Len(leaf_lesions), 1)
             ELSE 0)]

\* growth_control.py 246-253: the calls for a blade offer
GeometricOffers(leaf_lesions, offer, total_demand, nb_lesions) ==
    LET les == leaf_lesions[Len(leaf_lesions)] IN
    IF offer > 0
    THEN [i \in 1..Len(leaf_lesions) |->
            Call(leaf_lesions[i],
                 IF total_demand > 0
                 THEN RoundDiv(Demand(leaf_lesions[i]) * offer, total_demand, 1)
                 ELSE 0)]
    ELSE [i \in 1..Len(leaf_lesions) |->
            Call(leaf_lesions[i],
                 RoundDiv(offer * Les(les).nb_lesions_non_sen, nb_lesions, 1))]

Quiet == [healthy |-> {}, calls |-> <<>>, responses |-> <<>>,
          senesced |-> senesced_lengths, raised |-> "none"]

\* r = leaf_green_area / les_surf_non_sen with les_surf_non_sen = 0: a Python
\* float raises ZeroDivisionError, a numpy.float64 gives nan and goes on.
FloatTypes == {"float", "numpy.float64"}

GeometricBlade(blade, float_type) ==
    LET leaf == Leaf(blade)
        leaf_lesions == LeafLesions(leaf)
        nb_lesions == SumSeq([i \in 1..Len(leaf_lesions) |->
                                 Les(leaf_lesions[i]).nb_lesions_non_sen])
        pot_les_surf == SumSeq([i \in 1..Len(leaf_lesions) |->
                                   Les(leaf_lesions[i]).potential_surface])
        les_surf_non_sen == SumSeq([i \in 1..Len(leaf_lesions) |->
                                       Les(leaf_lesions[i]).surface_non_senescent])
        total_demand == TotalDemand(leaf_lesions)
        leaf_green_area == LeafSum(green_area, leaf)
        true_area == true_area_impacted(nb_lesions, leaf_green_area,
                                        <<pot_les_surf, nb_lesions>>)
        border == manage_senescence_border(leaf, <<leaf_green_area, les_surf_non_sen>>)
    IN  IF Len(leaf) > 0 /\ nb_lesions > 0
        THEN IF RoundDiv(les_surf_non_sen, 1, Q16) < RoundDiv(leaf_green_area, 1, Q16)
             THEN [Quiet EXCEPT
                     !.calls = GeometricOffers(leaf_lesions, true_area - les_surf_non_sen,
                                               total_demand, nb_lesions)]
             ELSE IF les_surf_non_sen = 0
                  THEN IF float_type = "float"
                       THEN [Quiet EXCEPT !.raised = "ZeroDivisionError"]
                       ELSE [Quiet EXCEPT
                               !.calls = GeometricOffers(leaf_lesions, 0,
                                                         total_demand, nb_lesions)]
                  ELSE IF RoundDiv(leaf_green_area * ONE, les_surf_non_sen, Q14) < ONE
                       THEN IF border.raised # "none"
                            THEN [Quiet EXCEPT !.senesced = border.senesced,
                                               !.responses = border.responses,
                                               !.raised = border.raised]
                            ELSE [Quiet EXCEPT
                                    !.senesced = border.senesced,
                                    !.responses = border.responses,
                                    !.calls = GeometricOffers(leaf_lesions, 0,
                                                              total_demand, nb_lesions)]
                       ELSE [Quiet EXCEPT
                               !.calls = GeometricOffers(leaf_lesions, 0,
                                                         total_demand, nb_lesions)]
        ELSE Quiet

(***************************************************************************)
(* control(): the blades are walked in the order of the label dictionary;  *)
(* an exception ends the walk, the blades after it are not reached.        *)
(***************************************************************************)
BladeOrders == {<<1, 2>>, <<2, 1>>}

\* the blades of order ord that control() processes, the raising one included
Reached(ord, res) ==
    IF res[ord[1]].raised = "none" THEN {ord[1], ord[2]} ELSE {ord[1]}

\* the exception that ended control(), at the blade that raised it
Raised(ord, res) ==
    [b \in Blades |-> IF b \in Reached(ord, res) THEN res[b].raised ELSE "none"]

BladeOf(vid) == IF vid \in {11, 12} THEN 1 ELSE 2

\* the blade's pass went through pdb.set_trace()
Suspends(res) == "suspended" \in DOMAIN res /\ res.suspended

Control(name, results) ==
    /\ policy = "none"
    /\ \E res \in results :
       \E ord \in BladeOrders :
         LET reached == Reached(ord, res) IN
         /\ policy' = name
         /\ healthy' = [b \in {x \in reached : res[x].healthy # {}} |->
                          CHOOSE h \in res[b].healthy : TRUE]
         /\ calls' = [b \in Blades |->
                        IF b \in reached THEN res[b].calls ELSE <<>>]
         /\ responses' = [b \in Blades |->
                            IF b \in reached THEN res[b].responses ELSE <<>>]
         /\ senesced_lengths' =
               [v \in Vertices |->
                  IF BladeOf(v) \in reached THEN res[BladeOf(v)].senesced[v]
                  ELSE senesced_lengths[v]]
         /\ raised' = Raised(ord, res)
         /\ suspended' = {b \in reached : Suspends(res[b])}
    /\ UNCHANGED <<geometry, area, green_area, senesced_area, lengths, lesions>>
    /\ UNCHANGED <<placing, looping, gate, computing>>

NoPriorityControl ==
    Control("NoPriority", {[b \in Blades |-> NoPriorityBlade(b)]})

PriorityControl ==
    Control("Priority", {[b \in Blades |-> PriorityBlade(b)]})

GeometricControl ==
    Control("Geometric",
            {[b \in Blades |-> GeometricBlade(b, float_type)] :
                float_type \in FloatTypes})

(***************************************************************************)
(* The collaborators of the allocator.  Inoculation adds lesions between   *)
(* two steps; after a control() the fungus model moves a lesion to its     *)
(* next state, which starts a new step and clears the trace of the last    *)
(* control().                                                              *)
(***************************************************************************)
ClearOutcome ==
    /\ policy' = "none"
    /\ healthy' = NoHealthy
    /\ calls' = NoCalls
    /\ responses' = NoCalls
    /\ raised' = NoRaise
    /\ suspended' = {}

NbLesions == SumSeq([i \in 1..4 |-> Len(lesions[<<11, 12, 21, 22>>[i]])])

\* infect: a dispersal unit becomes a lesion, appended to its vertex's list
Inoculate ==
    /\ policy = "none"
    /\ NbLesions < MaxLesions
    /\ \E v \in Hosts, k \in LesionKinds :
         lesions' = [lesions EXCEPT ![v] = Append(@, k)]
    /\ UNCHANGED <<canopy, outcome>>
    /\ UNCHANGED <<placing, looping, gate, computing>>

\* the state the fungus model gives a lesion next
NextKind(k) ==
    CASE k = Fresh -> Young
      [] k = Young -> Grown
      [] OTHER -> Dead

\* update: the fungus model moves a lesion to its next state
UpdateLesion ==
    /\ policy # "none"
    /\ \E v \in Hosts : \E i \in 1..Len(lesions[v]) :
         /\ NextKind(lesions[v][i]) # lesions[v][i]
         /\ lesions' = [lesions EXCEPT ![v][i] = NextKind(@)]
    /\ ClearOutcome
    /\ UNCHANGED canopy
    /\ UNCHANGED <<placing, looping, gate, computing>>

Init ==
    /\ \E c \in Canopies :
         /\ geometry = {v \in Vertices : c[v].geom}
         /\ area = [v \in Vertices |-> c[v].area]
         /\ green_area = [v \in Vertices |-> c[v].green_area]
         /\ senesced_area = [v \in Vertices |-> c[v].senesced_area]
         /\ lengths = [v \in Vertices |-> c[v].length]
         /\ senesced_lengths = [v \in Vertices |-> c[v].senesced_length]
    /\ lesions = [v \in Vertices |-> <<>>]
    /\ policy = "none"
    /\ healthy = NoHealthy
    /\ calls = NoCalls
    /\ responses = NoCalls
    /\ raised = NoRaise
    /\ suspended = {}
    /\ PlacingAtRest /\ LoopingAtRest /\ GateAtRest /\ ComputingAtRest

Next ==
    \/ Inoculate
    \/ UpdateLesion
    \/ NoPriorityControl
    \/ PriorityControl
    \/ GeometricControl

Spec == Init /\ [][Next]_vars

(***************************************************************************)
(* Reading the trace of the last control().                                *)
(***************************************************************************)
\* the lesions of the labelled leaf elements, with geometry, of a blade
BladeLesions(b) == LeafLesions(Leaf(b))

\* the offers that lesion l received in the last control(), in call order
RECURSIVE OffersIn(_, _)
OffersIn(cs, l) ==
    IF cs = <<>> THEN <<>>
    ELSE IF Head(cs).vid = l[1] /\ Head(cs).idx = l[2]
         THEN <<Head(cs).growth_offer>> \o OffersIn(Tail(cs), l)
         ELSE OffersIn(Tail(cs), l)

OffersTo(l) == OffersIn(calls[1] \o calls[2], l)

SumOffers(b) == SumSeq([i \in 1..Len(calls[b]) |-> calls[b][i].growth_offer])

Demands(b) == [i \in 1..Len(BladeLesions(b)) |-> Demand(BladeLesions(b)[i])]

PriorDemand(b) == TotalDemand(PriorLesions(BladeLesions(b)))

NonPriorDemand(b) == TotalDemand(NonPriorLesions(BladeLesions(b)))

\* offer is num/den rounded to the nearest multiple of Q14
IsRound14(offer, num, den) ==
    /\ offer % Q14 = 0
    /\ 2 * Abs(offer * den - num) <= Q14 * den

\* lesion l received one offer in the last control(), and it is x
OfferedOnce(l, x) == OffersTo(l) = <<x>>

\* lesion l received one offer, the rational num/den rounded to 14 decimals
OfferedRound14(l, num, den) ==
    /\ Len(OffersTo(l)) = 1
    /\ IsRound14(OffersTo(l)[1], num, den)

\* lesion l received one offer, the rational num/den itself
OfferedExactly(l, num, den) ==
    /\ Len(OffersTo(l)) = 1
    /\ OffersTo(l)[1] * den = num

\* the branch of PriorityGrowthControl.control a processed blade went through
PriorityBranch(b) ==
    IF TotalDemand(BladeLesions(b)) <= healthy[b] THEN "full demand"
    ELSE IF PriorDemand(b) > healthy[b] THEN "prior-rationed"
    ELSE "remainder-rationed"

\* the set of the elements of a list
Range(ls) == {ls[i] : i \in 1..Len(ls)}

(***************************************************************************)
(* C1.  NoPriority and Priority: on every blade the offers passed to       *)
(* control_growth in one control() sum to at most the healthy area that    *)
(* control() computed for the blade.                                       *)
(* The code rounds every rationed offer to the nearest 14-decimal step, so *)
(* the rounded offers can sum to more than the area they share.            *)
(***************************************************************************)
C1_OffersWithinHealthyArea ==
    policy \in {"NoPriority", "Priority"} =>
        \A b \in DOMAIN healthy : SumOffers(b) <= healthy[b]

(***************************************************************************)
(* C2.  NoPriority, total demand above the healthy area: every lesion is   *)
(* offered healthy_area * demand / total_demand rounded to 14 decimals,    *)
(* that is the multiple of the 14-decimal step nearest to its exact share. *)
(* Demands 60 and 90 on a healthy area of 100 give 40 and 60 (here at the  *)
(* scale of 2/5: 24 and 36 on 40 give 16 and 24).                          *)
(***************************************************************************)
C2_NoPriorityRationing ==
    policy = "NoPriority" =>
        \A b \in DOMAIN healthy :
            LET ls == BladeLesions(b)
                total == TotalDemand(ls)
            IN  total > healthy[b] =>
                  /\ Len(calls[b]) = Len(ls)
                  /\ \A i \in 1..Len(ls) :
                        /\ calls[b][i].vid = ls[i][1]
                        /\ calls[b][i].idx = ls[i][2]
                        /\ IsRound14(calls[b][i].growth_offer,
                                     healthy[b] * Demand(ls[i]), total)
                  /\ (healthy[b] = 40 /\ Demands(b) = <<24, 36>>
                        => /\ calls[b][1].growth_offer = 16
                           /\ calls[b][2].growth_offer = 24)

\* a rationed blade on which a share was rounded, upwards
C2_Witness ==
    /\ policy = "NoPriority"
    /\ \E b \in DOMAIN healthy :
         LET ls == BladeLesions(b)
             total == TotalDemand(ls)
         IN  /\ total > healthy[b]
             /\ \E i \in 1..Len(ls) :
                  calls[b][i].growth_offer * total > healthy[b] * Demand(ls[i])

\* the example of the claim is reached
C2_Example ==
    /\ policy = "NoPriority"
    /\ \E b \in DOMAIN healthy :
         /\ healthy[b] = 40
         /\ Demands(b) = <<24, 36>>
         /\ calls[b][1].growth_offer = 16
         /\ calls[b][2].growth_offer = 24

(***************************************************************************)
(* C3.  NoPriority, total demand at most the healthy area: every lesion is *)
(* offered its own growth_demand exactly, neither rounded nor scaled.      *)
(***************************************************************************)
C3_NoPriorityFullDemand ==
    policy = "NoPriority" =>
        \A b \in DOMAIN healthy :
            LET ls == BladeLesions(b) IN
            TotalDemand(ls) <= healthy[b] =>
              /\ Len(calls[b]) = Len(ls)
              /\ \A i \in 1..Len(ls) :
                    /\ calls[b][i].vid = ls[i][1]
                    /\ calls[b][i].idx = ls[i][2]
                    /\ calls[b][i].growth_offer = Demand(ls[i])

\* a blade served in full with a demand that lies off the 14-decimal grid
C3_Witness ==
    /\ policy = "NoPriority"
    /\ \E b \in DOMAIN healthy :
         LET ls == BladeLesions(b) IN
         /\ TotalDemand(ls) <= healthy[b]
         /\ \E i \in 1..Len(ls) :
              /\ Demand(ls[i]) % Q14 # 0
              /\ calls[b][i].growth_offer = Demand(ls[i])

(***************************************************************************)
(* C4.  Priority, total demand above the healthy area and prior demand     *)
(* (status >= CHLOROTIC) within it: every prior lesion is offered its full *)
(* demand and every non-prior lesion                                       *)
(* (healthy_area - prior_demand) * demand / non_prior_demand.              *)
(* As stated, with the quotient itself as the offer:                       *)
(***************************************************************************)
C4_RemainderExact ==
    policy = "Priority" =>
        \A b \in DOMAIN healthy :
            PriorityBranch(b) = "remainder-rationed" =>
              /\ \A l \in Range(PriorLesions(BladeLesions(b))) :
                    OfferedOnce(l, Demand(l))
              /\ \A l \in Range(NonPriorLesions(BladeLesions(b))) :
                    OfferedExactly(l, (healthy[b] - PriorDemand(b)) * Demand(l),
                                   NonPriorDemand(b))

(***************************************************************************)
(* C4, amended.  In the same branch every prior lesion is offered its full *)
(* demand and every non-prior lesion                                       *)
(* (healthy_area - prior_demand) * demand / non_prior_demand rounded to 14 *)
(* decimals.  A CHLOROTIC lesion of demand 60 and an INCUBATING lesion of  *)
(* demand 90 on a healthy area of 100 get 60 and 40 (here at the scale of  *)
(* 2/5: demands 24 and 36 on 40 get 24 and 16).                            *)
(***************************************************************************)
C4_RemainderRounded ==
    policy = "Priority" =>
        \A b \in DOMAIN healthy :
            PriorityBranch(b) = "remainder-rationed" =>
              /\ \A l \in Range(PriorLesions(BladeLesions(b))) :
                    OfferedOnce(l, Demand(l))
              /\ \A l \in Range(NonPriorLesions(BladeLesions(b))) :
                    OfferedRound14(l, (healthy[b] - PriorDemand(b)) * Demand(l),
                                   NonPriorDemand(b))
              /\ (/\ healthy[b] = 40
                  /\ Demands(b) = <<24, 36>>
                  /\ IsPrior(BladeLesions(b)[1])
                  /\ ~IsPrior(BladeLesions(b)[2]))
                   => /\ OfferedOnce(BladeLesions(b)[1], 24)
                      /\ OfferedOnce(BladeLesions(b)[2], 16)

\* a blade in the remainder branch, with prior lesions served in full and a
\* non-prior lesion whose share was rounded
C4_Witness ==
    /\ policy = "Priority"
    /\ \E b \in DOMAIN healthy :
         /\ PriorityBranch(b) = "remainder-rationed"
         /\ PriorLesions(BladeLesions(b)) # <<>>
         /\ \E l \in Range(NonPriorLesions(BladeLesions(b))) :
              /\ Len(OffersTo(l)) = 1
              /\ OffersTo(l)[1] * NonPriorDemand(b)
                   # (healthy[b] - PriorDemand(b)) * Demand(l)

\* the example of the claim is reached
C4_Example ==
    /\ policy = "Priority"
    /\ \E b \in DOMAIN healthy :
         /\ healthy[b] = 40
         /\ Demands(b) = <<24, 36>>
         /\ PriorityBranch(b) = "remainder-rationed"
         /\ OfferedOnce(BladeLesions(b)[1], 24)
         /\ OfferedOnce(BladeLesions(b)[2], 16)

(***************************************************************************)
(* C5.  Priority, prior demand alone above the healthy area: every         *)
(* non-prior lesion (status < CHLOROTIC) is offered exactly 0 and every    *)
(* prior lesion healthy_area * demand / prior_demand.                      *)
(* As stated, with the quotient itself as the offer:                       *)
(***************************************************************************)
C5_PriorRationedExact ==
    policy = "Priority" =>
        \A b \in DOMAIN healthy :
            PriorityBranch(b) = "prior-rationed" =>
              /\ \A l \in Range(NonPriorLesions(BladeLesions(b))) :
                    OfferedOnce(l, 0)
              /\ \A l \in Range(PriorLesions(BladeLesions(b))) :
                    OfferedExactly(l, healthy[b] * Demand(l), PriorDemand(b))

(***************************************************************************)
(* C5, amended.  In the same branch every non-prior lesion is offered      *)
(* exactly 0 and every prior lesion healthy_area * demand / prior_demand   *)
(* rounded to 14 decimals.                                                 *)
(***************************************************************************)
C5_PriorRationedRounded ==
    policy = "Priority" =>
        \A b \in DOMAIN healthy :
            PriorityBranch(b) = "prior-rationed" =>
              /\ \A l \in Range(NonPriorLesions(BladeLesions(b))) :
                    OfferedOnce(l, 0)
              /\ \A l \in Range(PriorLesions(BladeLesions(b))) :
                    OfferedRound14(l, healthy[b] * Demand(l), PriorDemand(b))

\* a blade whose prior lesions share a positive healthy area while a
\* non-prior lesion with a demand gets 0
C5_Witness ==
    /\ policy = "Priority"
    /\ \E b \in DOMAIN healthy :
         /\ PriorityBranch(b) = "prior-rationed"
         /\ healthy[b] > 0
         /\ \E l \in Range(NonPriorLesions(BladeLesions(b))) :
              Demand(l) > 0 /\ OfferedOnce(l, 0)
         /\ \E l \in Range(PriorLesions(BladeLesions(b))) :
              Len(OffersTo(l)) = 1 /\ OffersTo(l)[1] > 0

(***************************************************************************)
(* C6.  Same blade, same lesions and areas: whenever the healthy area is   *)
(* at least the prior demand, every prior lesion is offered under Priority *)
(* at least what NoPriority offers it.                                     *)
(* NoPriority rounds a rationed share to the nearest 14-decimal step, which*)
(* can lie above the demand that Priority offers in full.                  *)
(***************************************************************************)
C6_PriorNotBelowNoPriority ==
    policy = "Priority" =>
        \A b \in DOMAIN healthy :
            healthy[b] >= PriorDemand(b) =>
              LET ls == BladeLesions(b)
                  without == NoPriorityOffers(ls, healthy[b]).calls
              IN  \A i \in 1..Len(ls) :
                    IsPrior(ls[i]) =>
                      /\ Len(OffersTo(ls[i])) = 1
                      /\ OffersTo(ls[i])[1] >= without[i].growth_offer

(***************************************************************************)
(* C7.  NoPriority and Priority: one control() calls control_growth        *)
(* exactly once on every lesion of the labelled leaf elements (with        *)
(* geometry) of every blade, whichever branch the blade goes through.      *)
(***************************************************************************)
C7_OneCallPerLesion ==
    policy \in {"NoPriority", "Priority"} =>
        \A b \in Blades :
            /\ \A l \in Range(BladeLesions(b)) : Len(OffersTo(l)) = 1
            /\ Len(calls[b]) = Len(BladeLesions(b))

\* Priority with a prior-rationed blade that holds a non-prior lesion and
\* another blade, with a lesion, served in full
C7_Witness ==
    /\ policy = "Priority"
    /\ \E b \in DOMAIN healthy :
         /\ PriorityBranch(b) = "prior-rationed"
         /\ NonPriorLesions(BladeLesions(b)) # <<>>
    /\ \E b \in DOMAIN healthy :
         /\ PriorityBranch(b) = "full demand"
         /\ BladeLesions(b) # <<>>
    /\ \A b \in Blades : \A l \in Range(BladeLesions(b)) : Len(OffersTo(l)) = 1

(***************************************************************************)
(* C8.  Geometric: one control() that ends without exception has called    *)
(* control_growth exactly once on every lesion of the labelled leaf        *)
(* elements (with geometry) of every blade, whatever the lesions'          *)
(* nb_lesions_non_sen.                                                     *)
(* The code makes no call on a blade whose nb_lesions_non_sen sum to 0.    *)
(***************************************************************************)
C8_GeometricOneCallPerLesion ==
    (policy = "Geometric" /\ raised = NoRaise) =>
        \A b \in Blades :
            \A l \in Range(BladeLesions(b)) : Len(OffersTo(l)) = 1

(***************************************************************************)
(* C9.  Every policy: a blade whose available area is <= 0 (total area 0,  *)
(* green area 0 or healthy area 0) does not make control() raise, and      *)
(* every lesion on it is offered exactly 0, also when the lesions'         *)
(* non-senescent surface is 0.  Stated for the blades that control()       *)
(* reaches: no other blade has ended it.                                   *)
(* Geometric divides the green area by the non-senescent surface.          *)
(***************************************************************************)
NoAvailableArea(b) ==
    /\ Len(Leaf(b)) > 0
    /\ \/ LeafSum(area, Leaf(b)) <= 0
       \/ LeafSum(green_area, Leaf(b)) <= 0
       \/ b \in DOMAIN healthy /\ healthy[b] <= 0

C9_NoAreaNoOfferNoRaise ==
    policy # "none" =>
        \A b \in Blades :
            (NoAvailableArea(b) /\ \A o \in Blades \ {b} : raised[o] = "none") =>
              /\ raised[b] = "none"
              /\ \A l \in Range(BladeLesions(b)) :
                    /\ OffersTo(l) # <<>>
                    /\ \A i \in 1..Len(OffersTo(l)) : OffersTo(l)[i] = 0

(***************************************************************************)
(* C10.  NoPriority and Priority, over any sequence of controls, leaf      *)
(* attributes and lesion surfaces: the healthy area that control() uses    *)
(* for a blade (area - senesced area - green lesion area, clamped) is >= 0 *)
(* and every blade with labelled leaf elements gets one.                   *)
(***************************************************************************)
C10_HealthyAreaNotNegative ==
    policy \in {"NoPriority", "Priority"} =>
        /\ DOMAIN healthy = {b \in Blades : Len(Leaf(b)) > 0}
        /\ \A b \in DOMAIN healthy : healthy[b] >= 0

\* a blade whose lesions cover more than its area: the difference is
\* negative and the healthy area used is 0
C10_Witness ==
    /\ policy \in {"NoPriority", "Priority"}
    /\ \E b \in DOMAIN healthy :
         /\ LesSurf(BladeLesions(b)) > LeafSum(area, Leaf(b))
         /\ LeafSum(area, Leaf(b)) > 0
         /\ healthy[b] = 0


(***************************************************************************)
(* Placement of dispersal units (infection_control.py).                    *)
(*                                                                         *)
(* BiotrophDUProbaModel.control walks the blades; on each blade it takes   *)
(* the share of the leaf that is green and free of lesions, and keeps that *)
(* share of the emitted dispersal units of every leaf element.  The areas  *)
(* are rounded to three decimals first: round(x, 3) keeps the multiples of *)
(* Q3 units.  The two ratios are quotients of floats; the model keeps      *)
(* their product as an exact fraction.                                     *)
(***************************************************************************)
MaxDUs == 3          \* dispersal units on the whole MTG

Q3 == 80             \* step of round(x, 3), in units

GROUPSIZE == 3       \* nb_dispersal_units of an emitted grouped unit

Round3(x) == RoundDiv(x, 1, Q3)

\* the leaf elements of a blade; control() does not look at the geometry
PlacementLeaf(blade) ==
    SelectSeq(components(blade), LAMBDA vid : StartsWith(labels(vid), "LeafElement"))

\* ratio_green * (1 - ratio_les_surface) of a blade, as a fraction
HealthyRatio(blade) ==
    LET leaf == PlacementLeaf(blade)
        les_surf == Round3(LesSurf(LeafLesions(leaf)))
        leaf_area == Round3(LeafSum(area, leaf))
        leaf_green_area == Round3(LeafSum(green_area, leaf))
    IN  IF leaf_area > 0
        THEN [num |-> Min(leaf_area, leaf_green_area)
                        * (leaf_area - Min(leaf_area, les_surf)),
              den |-> leaf_area * leaf_area]
        ELSE [num |-> 0, den |-> 1]

\* round(ratio_green*(1-ratio_les_surface), 10) == 0.
RatioIsZero(r) == RoundDiv(r.num * ONE, r.den, Q10) = 0

\* int(total_nb_dus*ratio_green*(1-ratio_les_surface))
NbOnHealthy(total_nb_dus, r) == (total_nb_dus * r.num) \div r.den

\* the active units of a list that have the given status, in their order
ActiveWith(dus, status) ==
    SelectSeq(dus, LAMBDA du : du.is_active /\ du.status = status)

\* du.set_status(status = 'deposited') on every unit of the list
SetDeposited(dus) == [i \in 1..Len(dus) |-> [dus[i] EXCEPT !.status = "deposited"]]

\* [du for i, du in enumerate(dus) if i <= nb_on_healthy]
FirstUnits(dus, nb_on_healthy) == SubSeq(dus, 1, Min(Len(dus), nb_on_healthy + 1))

\* dus[0].nb_dispersal_units = nb_on_healthy
SetGroupSize(dus, nb_on_healthy) ==
    [dus EXCEPT ![1] = [@ EXCEPT !.nb_dispersal_units = nb_on_healthy]]

\* Faulty variant of PlaceOnHealthy: the units kept on the healthy area
\* are not marked deposited.
PlaceOnHealthyUnmarked(all_dus, r) ==
    LET dus_to_keep == ActiveWith(all_dus, "deposited")
        dus == ActiveWith(all_dus, "emitted")
    IN  IF Len(dus) > 0
        THEN LET group_dus == dus[1].group_dus
                 total_nb_dus == IF group_dus THEN dus[1].nb_dispersal_units
                                 ELSE Len(dus)
                 nb_on_healthy == NbOnHealthy(total_nb_dus, r)
             IN  IF nb_on_healthy > 0
                 THEN dus_to_keep \o
                      (IF group_dus THEN SetGroupSize(dus, nb_on_healthy)
                       ELSE FirstUnits(dus, nb_on_healthy))
                 ELSE dus_to_keep
        ELSE all_dus

\* Faulty variant of PlaceOnHealthy: the deposited units are not kept.
PlaceOnHealthyForgetful(all_dus, r) ==
    LET dus == ActiveWith(all_dus, "emitted")
    IN  IF Len(dus) > 0
        THEN LET group_dus == dus[1].group_dus
                 total_nb_dus == IF group_dus THEN dus[1].nb_dispersal_units
                                 ELSE Len(dus)
                 nb_on_healthy == NbOnHealthy(total_nb_dus, r)
             IN  IF nb_on_healthy > 0
                 THEN SetDeposited(IF group_dus
                                   THEN SetGroupSize(dus, nb_on_healthy)
                                   ELSE FirstUnits(dus, nb_on_healthy))
                 ELSE <<>>
        ELSE all_dus

\* the else branch of control() on the units of one leaf element
\* (lines 68-94): the new list of the element
PlaceOnHealthy(all_dus, r) ==
    LET dus_to_keep == ActiveWith(all_dus, "deposited")
        dus == ActiveWith(all_dus, "emitted")
    IN  IF Len(dus) > 0
        THEN LET group_dus == dus[1].group_dus
                 total_nb_dus == IF group_dus THEN dus[1].nb_dispersal_units
                                 ELSE Len(dus)
                 nb_on_healthy == NbOnHealthy(total_nb_dus, r)
             IN  IF nb_on_healthy > 0
                 THEN dus_to_keep \o
                      SetDeposited(IF group_dus
                                   THEN SetGroupSize(dus, nb_on_healthy)
                                   ELSE FirstUnits(dus, nb_on_healthy))
                 ELSE dus_to_keep
        ELSE all_dus

\* Faulty variant of PlaceOnLeaf: on a leaf without healthy area the
\* deposited units stay.
PlaceOnLeafSparing(blade, vid) ==
    LET r == HealthyRatio(blade)
    IN  IF RatioIsZero(r) THEN ActiveWith(dispersal_units[vid], "deposited")
        ELSE PlaceOnHealthy(dispersal_units[vid], r)

\* the new list of a leaf element that holds dispersal units
PlaceOnLeaf(blade, vid) ==
    LET r == HealthyRatio(blade)
    IN  IF RatioIsZero(r) THEN <<>>
        ELSE PlaceOnHealthy(dispersal_units[vid], r)


\* BiotrophDUProbaModel.control(g)
BiotrophControl ==
    /\ placement = <<>>
    /\ \E v \in Vertices : dispersal_units[v] # <<>>
    /\ placement' = <<dispersal_units>>
    /\ dispersal_units' =
          [v \in Vertices |->
             IF dispersal_units[v] # <<>>
                /\ \E b \in Blades : v \in Range(PlacementLeaf(b))
             THEN PlaceOnLeaf(BladeOf(v), v)
             ELSE dispersal_units[v]]
    /\ UNCHANGED <<mtg, looping, gate, computing>>

NbDUs == SumSeq([i \in 1..4 |-> Len(dispersal_units[<<11, 12, 21, 22>>[i]])])

AllDUs == UNION {Range(dispersal_units[v]) : v \in Vertices}

\* dispersal: a unit lands on a leaf element with the status 'emitted';
\* every unit is of the one fungus and shares its group_dus
Emit ==
    /\ NbDUs < MaxDUs
    /\ \E v \in Hosts, group_dus \in BOOLEAN :
         /\ \A du \in AllDUs : du.group_dus = group_dus
         /\ \E id \in 1..MaxDUs :
              /\ \A du \in AllDUs : du.id # id
              /\ \A other \in 1..(id - 1) : \E du \in AllDUs : du.id = other
              /\ dispersal_units' =
                    [dispersal_units EXCEPT ![v] =
                        Append(@, [id |-> id, status |-> "emitted",
                                   is_active |-> TRUE, group_dus |-> group_dus,
                                   nb_dispersal_units |->
                                       IF group_dus THEN GROUPSIZE ELSE 1])]
    /\ placement' = <<>>
    /\ UNCHANGED <<mtg, looping, gate, computing>>

\* du.disable(): a unit that infected or was washed is no longer active
Disable ==
    /\ \E v \in Hosts : \E i \in 1..Len(dispersal_units[v]) :
         /\ dispersal_units[v][i].is_active
         /\ dispersal_units' =
               [dispersal_units EXCEPT ![v][i] = [@ EXCEPT !.is_active = FALSE]]
    /\ placement' = <<>>
    /\ UNCHANGED <<mtg, looping, gate, computing>>

\* the canopy model between two controls: a green leaf element dies
Senesce ==
    /\ \E v \in Hosts \cap geometry :
         /\ green_area[v] = Green.green_area /\ senesced_area[v] = Green.senesced_area
         /\ green_area' = [green_area EXCEPT ![v] = Senesced.green_area]
         /\ senesced_area' = [senesced_area EXCEPT ![v] = Senesced.senesced_area]
         /\ senesced_lengths' = [senesced_lengths EXCEPT ![v] = Senesced.senesced_length]
    /\ placement' = <<>>
    /\ UNCHANGED <<geometry, area, lengths, lesions, outcome, dispersal_units>>
    /\ UNCHANGED <<looping, gate, computing>>

\* the lesions the leaves carry when the dispersal units arrive
PlacementLesions ==
    {[v \in Vertices |-> IF v = 11 THEN <<Grown>> ELSE <<>>]}

\* the canopies the dispersal units land on
PlacementCanopies ==
    {c \in Canopies : c[11] = HalfSen /\ c[12] = NoGeom /\ c[21] = Green}

PlacementInit ==
    /\ \E c \in PlacementCanopies :
         /\ geometry = {v \in Vertices : c[v].geom}
         /\ area = [v \in Vertices |-> c[v].area]
         /\ green_area = [v \in Vertices |-> c[v].green_area]
         /\ senesced_area = [v \in Vertices |-> c[v].senesced_area]
         /\ lengths = [v \in Vertices |-> c[v].length]
         /\ senesced_lengths = [v \in Vertices |-> c[v].senesced_length]
    /\ lesions \in PlacementLesions
    /\ policy = "none"
    /\ healthy = NoHealthy
    /\ calls = NoCalls
    /\ responses = NoCalls
    /\ raised = NoRaise
    /\ suspended = {}
    /\ PlacingAtRest /\ LoopingAtRest /\ GateAtRest /\ ComputingAtRest

PlacementNext ==
    \/ Emit
    \/ Disable
    \/ Senesce
    \/ BiotrophControl

PlacementSpec == PlacementInit /\ [][PlacementNext]_vars

(***************************************************************************)
(* Reading the trace of the last infection control().                      *)
(***************************************************************************)
\* the blade has no healthy area: ratio_green * (1 - ratio_les_surface) is 0
NoHealthyRatio(b) == HealthyRatio(b).num = 0

HasStatus(dus, status) == \E i \in 1..Len(dus) : dus[i].status = status

\* C11: after control(), on a blade whose ratio_green * (1 - ratio_lesion)
\* is 0, every leaf element that held dispersal units holds an empty list:
\* the deposited and the emitted units are gone, none is marked deposited.
C11_NoHealthyAreaEmptiesLists ==
    placement # <<>> =>
       \A b \in Blades :
          NoHealthyRatio(b) =>
             \A v \in Range(PlacementLeaf(b)) :
                placement[1][v] # <<>> => dispersal_units[v] = <<>>

\* control() ran on a blade without healthy area where a leaf element held
\* a deposited and an emitted unit
C11_Witness ==
    /\ placement # <<>>
    /\ \E b \in Blades :
         /\ NoHealthyRatio(b)
         /\ \E v \in Range(PlacementLeaf(b)) :
              /\ HasStatus(placement[1][v], "deposited")
              /\ HasStatus(placement[1][v], "emitted")
              /\ dispersal_units[v] = <<>>

\* the emitted units that control() found active on a leaf element
EmittedBefore(v) == ActiveWith(placement[1][v], "emitted")

\* the deposited units that control() found active on a leaf element
DepositedBefore(v) == ActiveWith(placement[1][v], "deposited")

\* the identities of the units of a list, in their order
Ids(dus) == [i \in 1..Len(dus) |-> dus[i].id]

\* floor(total * ratio_green * (1 - ratio_les_surface)) on a blade
FloorOnHealthy(total, b) ==
    CHOOSE n \in 0..total :
       /\ n * HealthyRatio(b).den <= total * HealthyRatio(b).num
       /\ (n + 1) * HealthyRatio(b).den > total * HealthyRatio(b).num

\* the leaf elements where control() found emitted units, the units being
\* grouped or not
Placed(b, grouped) ==
    {v \in Range(PlacementLeaf(b)) :
        /\ ~NoHealthyRatio(b)
        /\ EmittedBefore(v) # <<>>
        /\ EmittedBefore(v)[1].group_dus = grouped}

\* C12: in ungrouped mode, with k emitted units on a leaf element and
\* nb_on_healthy = floor(k * ratio_green * (1 - ratio_lesion)) > 0, the
\* element keeps exactly the first nb_on_healthy emitted units, marked
\* deposited; the other emitted units are removed.
C12_FirstUnitsKept ==
    placement # <<>> =>
       \A b \in Blades : \A v \in Placed(b, FALSE) :
          LET nb_on_healthy == FloorOnHealthy(Len(EmittedBefore(v)), b)
          IN  nb_on_healthy > 0 =>
                 /\ Ids(dispersal_units[v]) =
                       Ids(DepositedBefore(v)) \o
                       SubSeq(Ids(EmittedBefore(v)), 1, nb_on_healthy)
                 /\ ~HasStatus(dispersal_units[v], "emitted")

\* the dispersal units that a list of grouped units stands for
TotalCount(dus) == SumSeq([i \in 1..Len(dus) |-> dus[i].nb_dispersal_units])

\* C13: in grouped mode, after control() the counts carried by the units
\* marked deposited among the emitted units of a leaf element add up to
\* nb_on_healthy = floor(total emitted count * ratio_green *
\* (1 - ratio_lesion)) when that is positive, for any number of emitted
\* unit objects.
C13_GroupedCountOnHealthy ==
    placement # <<>> =>
       \A b \in Blades : \A v \in Placed(b, TRUE) :
          LET nb_on_healthy == FloorOnHealthy(TotalCount(EmittedBefore(v)), b)
              marked == SelectSeq(dispersal_units[v],
                           LAMBDA du : \E i \in 1..Len(EmittedBefore(v)) :
                                          EmittedBefore(v)[i].id = du.id)
          IN  nb_on_healthy > 0 =>
                 /\ TotalCount(marked) = nb_on_healthy
                 /\ ~HasStatus(marked, "emitted")

\* the units of a list that were deposited and active before control(),
\* in the order of the list
KeptOf(dus, v) ==
    SelectSeq(dus, LAMBDA du : \E i \in 1..Len(DepositedBefore(v)) :
                                  DepositedBefore(v)[i].id = du.id)

\* C14: on a blade whose ratio product is not 0, control() leaves every
\* active unit that was already deposited in the list of its leaf element,
\* with the status and the count it had and in the order the units had,
\* whether nb_on_healthy is positive or 0.
C14_DepositedUnitsStay ==
    placement # <<>> =>
       \A b \in Blades :
          ~NoHealthyRatio(b) =>
             \A v \in Range(PlacementLeaf(b)) :
                KeptOf(dispersal_units[v], v) = DepositedBefore(v)

\* control() ran on a blade with healthy area where a leaf element held a
\* deposited unit followed by an emitted one, for nb_on_healthy = 0
C14_WitnessNone ==
    /\ placement # <<>>
    /\ \E b \in Blades : \E v \in Placed(b, FALSE) \cup Placed(b, TRUE) :
         /\ DepositedBefore(v) # <<>>
         /\ dispersal_units[v] = DepositedBefore(v)

\* the same for nb_on_healthy > 0 and two deposited units: they stay in
\* their order, in front of the newly deposited one
C14_Witness ==
    /\ placement # <<>>
    /\ \E b \in Blades : \E v \in Placed(b, FALSE) \cup Placed(b, TRUE) :
         /\ Len(DepositedBefore(v)) >= 2
         /\ Len(dispersal_units[v]) > Len(DepositedBefore(v))
         /\ SubSeq(dispersal_units[v], 1, 2) = DepositedBefore(v)

(***************************************************************************)
(* true_area_impacted as a function of its arguments.  The areas are in    *)
(* thousandths here.                                                       *)
(***************************************************************************)
MaxNbLesions == 6    \* nb_lesions of a call

\* mean_lesion_size, as fractions
MeanSizes == {<<0, 1>>, <<500, 1>>, <<1000, 1>>, <<2000, 1>>, <<4000, 1>>, <<5000, 3>>}

\* available_area
AvailableAreas == {-1000, 0, 5000, 10000, 20000}

ImpactInit ==
    /\ \E n \in 0..MaxNbLesions, mean \in MeanSizes, a \in AvailableAreas :
         args = [nb_lesions |-> n, mean_lesion_size |-> mean, available_area |-> a]
    /\ result = <<>>
    /\ MtgAtRest /\ PlacingAtRest /\ LoopingAtRest /\ GateAtRest

\* a call of true_area_impacted
Impact ==
    /\ result = <<>>
    /\ result' = <<true_area_impacted(args.nb_lesions, args.available_area,
                                      args.mean_lesion_size)>>
    /\ UNCHANGED <<mtg, placing, looping, gate, args>>

ImpactNext == Impact

ImpactSpec == ImpactInit /\ [][ImpactNext]_vars

\* exp(-x) to four decimals from the tables, x in ten-thousandths
ExpTable ==
    [x \in {0, 1250, 2500, 5000, 10000, 15000, 20000, 30000, 40000} |->
       CASE x = 0 -> 10000
         [] x = 1250 -> 8825
         [] x = 2500 -> 7788
         [] x = 5000 -> 6065
         [] x = 10000 -> 3679
         [] x = 15000 -> 2231
         [] x = 20000 -> 1353
         [] x = 30000 -> 498
         [] x = 40000 -> 183]

\* n * mean_size / available_area of the call is x ten-thousandths
ExponentIs(x) ==
    LET num == args.nb_lesions * args.mean_lesion_size[1] * EXPSCALE
        den == args.mean_lesion_size[2] * args.available_area
    IN  num % den = 0 /\ num \div den = x

\* C15: true_area_impacted returns 0 for available_area <= 0 and
\* available_area * (1 - exp(-n * mean_size / available_area)) otherwise:
\* to three units in ten thousand of the area, wherever the tables give the
\* exponential, and everywhere between 0 and both the available area and
\* the summed lesion sizes n * mean_size.
C15_ImpactedArea ==
    result # <<>> =>
       IF args.available_area <= 0
       THEN result[1] = 0
       ELSE /\ \A x \in DOMAIN ExpTable :
                 ExponentIs(x) =>
                    Abs(result[1] * EXPSCALE
                        - args.available_area * (EXPSCALE - ExpTable[x]))
                       <= 3 * args.available_area + EXPSCALE
            /\ 0 <= result[1]
            /\ result[1] <= args.available_area
            /\ result[1] * args.mean_lesion_size[2]
                  <= args.nb_lesions * args.mean_lesion_size[1]
                     + args.mean_lesion_size[2]

\* the example: n = 5, mean_size = 2, available_area = 20 give 7.869
C15_Witness ==
    /\ result # <<>>
    /\ args = [nb_lesions |-> 5, mean_lesion_size |-> <<2000, 1>>,
               available_area |-> 20000]
    /\ Abs(result[1] - 7869) <= 2

(***************************************************************************)
(* The simulation loop (annual_loop_rust).  One iteration takes the value  *)
(* of the three clocks and walks the body of the loop; a step that its     *)
(* condition switches off is passed over.  The log keeps the calls the     *)
(* iteration has made.                                                     *)
(***************************************************************************)
\* Faulty variant of StepAfter: the lesions are updated before the
\* dispersal units infect.
StepAfterUpdateFirst(step) ==
    CASE step = "grow_canopy" -> "set_properties"
      [] step = "set_properties" -> "external_contamination"
      [] step = "external_contamination" -> "update"
      [] step = "update" -> "infect"
      [] step = "infect" -> "disperse"
      [] step = "disperse" -> "record"
      [] OTHER -> "done"

\* the statement that follows a statement of the loop body
StepAfter(step) ==
    CASE step = "grow_canopy" -> "set_properties"
      [] step = "set_properties" -> "external_contamination"
      [] step = "external_contamination" -> "infect"
      [] step = "infect" -> "update"
      [] step = "update" -> "disperse"
      [] step = "disperse" -> "record"
      [] OTHER -> "done"

\* a statement of the loop body: the call is made if its condition holds
Step(step, condition) ==
    /\ pc = step
    /\ pc' = StepAfter(step)
    /\ log' = IF condition THEN Append(log, step) ELSE log

\* for i, controls in enumerate(zip(canopy_timing, dispersal_timing,
\* rust_timing)): the next values of the three clocks
NextIteration ==
    /\ pc = "done"
    /\ \E c, d, r \in BOOLEAN :
         clocks' = [clocks EXCEPT !.canopy_iter = c, !.dispersal_iter = d,
                                  !.rust_iter = r]
    /\ pc' = "grow_canopy"
    /\ log' = <<>>
    /\ UNCHANGED <<mtg, placing, gate, computing>>

\* if canopy_iter: grow_canopy(...); the canopy has leaves or not
GrowCanopy ==
    /\ Step("grow_canopy", clocks.canopy_iter)
    /\ IF clocks.canopy_iter
       THEN \E geom \in {{}, Hosts} : geometry' = geom
       ELSE UNCHANGED geometry
    /\ UNCHANGED <<area, green_area, senesced_area, lengths, senesced_lengths,
                   lesions, outcome, clocks, placing, gate, computing>>

\* if rust_iter: set_properties(...)
SetProperties ==
    /\ Step("set_properties", clocks.rust_iter)
    /\ UNCHANGED <<mtg, clocks, placing, gate, computing>>

\* if dispersal_iter and len(geom)>0: external_contamination(...)
Contaminate ==
    /\ Step("external_contamination", clocks.dispersal_iter /\ geometry # {})
    /\ UNCHANGED <<mtg, clocks, placing, gate, computing>>

\* if rust_iter: infect(...)
Infect ==
    /\ Step("infect", clocks.rust_iter)
    /\ UNCHANGED <<mtg, clocks, placing, gate, computing>>

\* if rust_iter: ... update(...)
Update ==
    /\ Step("update", clocks.rust_iter)
    /\ UNCHANGED <<mtg, clocks, placing, gate, computing>>

\* if dispersal_iter and len(geom)>0: disperse(...)
Disperse ==
    /\ Step("disperse", clocks.dispersal_iter /\ geometry # {})
    /\ UNCHANGED <<mtg, clocks, placing, gate, computing>>

\* if rust_iter and record == True: recorder.record(...)
Record ==
    /\ Step("record", clocks.rust_iter /\ clocks.record)
    /\ UNCHANGED <<mtg, clocks, placing, gate, computing>>

LoopInit ==
    /\ \E record \in BOOLEAN :
         clocks = [canopy_iter |-> FALSE, dispersal_iter |-> FALSE,
                   rust_iter |-> FALSE, record |-> record]
    /\ pc = "done"
    /\ log = <<>>
    /\ MtgAtRest /\ PlacingAtRest /\ GateAtRest /\ ComputingAtRest

LoopNext ==
    \/ NextIteration
    \/ GrowCanopy
    \/ SetProperties
    \/ Contaminate
    \/ Infect
    \/ Update
    \/ Disperse
    \/ Record

LoopSpec == LoopInit /\ [][LoopNext]_vars

\* the place of a call in the order canopy growth, contamination, infect,
\* update, dispersal, recording
Rank(step) ==
    CASE step = "grow_canopy" -> 1
      [] step = "set_properties" -> 2
      [] step = "external_contamination" -> 3
      [] step = "infect" -> 4
      [] step = "update" -> 5
      [] step = "disperse" -> 6
      [] step = "record" -> 7

Ran(step) == \E i \in 1..Len(log) : log[i] = step

\* C16: the calls of one iteration are made in the order canopy growth,
\* contamination, infect, update, dispersal, recording; infect and update
\* are made only when the disease clock fires, and then both, infect
\* first; contamination and dispersal only when the dispersal clock fires.
C16_StepsInOrder ==
    /\ \A i, j \in 1..Len(log) : i < j => Rank(log[i]) < Rank(log[j])
    /\ (Ran("infect") \/ Ran("update")) => clocks.rust_iter
    /\ Ran("update") => Ran("infect")
    /\ (pc \in {"disperse", "record", "done"} /\ clocks.rust_iter)
          => Ran("infect") /\ Ran("update")
    /\ (Ran("external_contamination") \/ Ran("disperse")) => clocks.dispersal_iter

\* an iteration where every clock fired ran the six steps
C16_Witness ==
    /\ pc = "done"
    /\ log = <<"grow_canopy", "set_properties", "external_contamination",
               "infect", "update", "disperse", "record">>

(***************************************************************************)
(* The calendar time gate behind dispersal_timing (setup_simu).  The       *)
(* master sequence is hourly; the gate adds the hour of every tick to its  *)
(* accumulator and fires when the accumulator reaches the delay, keeping   *)
(* the remainder.  At the end of the sequence the hours left since the     *)
(* last fire are fired once.  The accumulator and the delay are counted in *)
(* half hours, so that a delay can be shorter than a tick or lie between   *)
(* two ticks.                                                              *)
(***************************************************************************)
MaxHours == 6        \* hours of the master sequence

HOUR == 2            \* the step of the master sequence, in half hours

\* the delays of a gate, in half hours
Delays == 1..5

\* Faulty variant of Remainder: the accumulator restarts from zero.
RemainderZero(acc, delay) == 0

\* what the accumulator keeps when the gate fires
Remainder(acc, delay) == acc - delay

\* time_filter(seq, delay) and time_control(seq, filter, data): the gate
\* at the start of its sequence
GateInit ==
    /\ \E hours \in 1..MaxHours, delay \in Delays :
         gate = [hours |-> hours, delay |-> delay, cursor |-> 0, acc |-> 0,
                 since |-> 0, fires |-> <<>>, ended |-> FALSE]
    /\ MtgAtRest /\ PlacingAtRest /\ LoopingAtRest /\ ComputingAtRest

\* one tick of the master sequence
Tick ==
    /\ gate.cursor < gate.hours
    /\ LET acc == gate.acc + HOUR
           since == gate.since + 1
       IN  gate' = IF acc >= gate.delay
                   THEN [gate EXCEPT !.cursor = @ + 1,
                                     !.acc = Remainder(acc, gate.delay),
                                     !.since = 0,
                                     !.fires = Append(@, since)]
                   ELSE [gate EXCEPT !.cursor = @ + 1, !.acc = acc,
                                     !.since = since]
    /\ UNCHANGED <<mtg, placing, looping, computing>>

\* the end of the master sequence: the last, partial interval fires
EndOfSequence ==
    /\ gate.cursor = gate.hours
    /\ ~gate.ended
    /\ gate' = IF gate.since > 0
               THEN [gate EXCEPT !.ended = TRUE, !.since = 0,
                                 !.fires = Append(@, gate.since)]
               ELSE [gate EXCEPT !.ended = TRUE]
    /\ UNCHANGED <<mtg, placing, looping, computing>>

GateNext ==
    \/ Tick
    \/ EndOfSequence

GateSpec == GateInit /\ [][GateNext]_vars

\* the fires of a finished sequence: floor(H/d) of them or one more, and
\* their dt add up to the H hours
FiresCover ==
    LET whole == (gate.hours * HOUR) \div gate.delay
    IN  /\ Len(gate.fires) \in {whole, whole + 1}
        /\ SumSeq(gate.fires) = gate.hours

\* the dt of the fires so far and the hours since the last fire add up to
\* the hours elapsed: every dt is the time since the previous fire
DtSincePreviousFire == SumSeq(gate.fires) + gate.since = gate.cursor

MaxLeafLesions == 3  \* lesions on the leaf of a call

MANT == 3            \* bits of mantissa of a float

\* the gap between the floats around x >= 0
RECURSIVE Ulp(_)
Ulp(x) == IF x < 2^MANT THEN 1 ELSE 2 * Ulp(x \div 2)

\* the float nearest to x >= 0, ties to even
FRound(x) ==
    LET u == Ulp(x)
        q == x \div u
        r == x % u
    IN  IF 2 * r > u \/ (2 * r = u /\ q % 2 = 1) THEN (q + 1) * u ELSE q * u

\* sum(xs): from 0, one rounded addition per element
RECURSIVE FSum(_)
FSum(xs) ==
    IF xs = <<>> THEN 0
    ELSE FRound(FSum(SubSeq(xs, 1, Len(xs) - 1)) + xs[Len(xs)])

\* growth demands and healthy areas that are floats
FloatDemands == {d \in {1, 2, 3, 5, 6, 10} : FRound(d) = d}

FloatAreas == {a \in {0, 4, 8, 12, 14, 16} : FRound(a) = a}

GrowthDemands(ls) == [i \in 1..Len(ls) |-> ls[i].growth_demand]

\* the lesions of the list that are prior, or that are not
Tier(ls, prior) ==
    SelectSeq(ls, LAMBDA l : (l.status >= CHLOROTIC) = prior)

\* lines 105-128 on the lesions of one leaf, a lesion being known by its
\* place in leaf_lesions: the control_growth calls and the exception
PriorityOnFloats(leaf_lesions, leaf_healthy_area) ==
    LET total_demand == FSum(GrowthDemands(leaf_lesions))
        prior_lesions == Tier(leaf_lesions, TRUE)
        non_prior_lesions == Tier(leaf_lesions, FALSE)
        prior_demand == FSum(GrowthDemands(prior_lesions))
        non_prior_demand == FSum(GrowthDemands(non_prior_lesions))
        remaining == FRound(leaf_healthy_area - prior_demand)
        offers(ls, num, den) ==
            [i \in 1..Len(ls) |->
               [idx |-> ls[i].idx,
                growth_offer |-> RoundDiv(num * ls[i].growth_demand, den, 1)]]
        full(ls) ==
            [i \in 1..Len(ls) |->
               [idx |-> ls[i].idx, growth_offer |-> ls[i].growth_demand]]
    IN  IF total_demand > leaf_healthy_area
        THEN IF prior_demand > leaf_healthy_area
             THEN [calls |-> [i \in 1..Len(non_prior_lesions) |->
                                [idx |-> non_prior_lesions[i].idx,
                                 growth_offer |-> 0]]
                             \o offers(prior_lesions, leaf_healthy_area,
                                       prior_demand),
                   raised |-> "none"]
             ELSE IF non_prior_demand < remaining
                  THEN [calls |-> full(prior_lesions),
                        raised |-> "AssertionError"]
                  ELSE IF non_prior_demand = 0 /\ non_prior_lesions # <<>>
                  THEN [calls |-> full(prior_lesions),
                        raised |-> "ZeroDivisionError"]
                  ELSE [calls |-> full(prior_lesions)
                                  \o offers(non_prior_lesions, remaining,
                                            non_prior_demand),
                        raised |-> "none"]
        ELSE [calls |-> full(leaf_lesions), raised |-> "none"]

\* the lesions of a leaf, in the order of leaf_lesions
LeafPopulations ==
    UNION {[1..n -> [growth_demand : FloatDemands,
                     status : {INCUBATING, CHLOROTIC}]] : n \in 1..MaxLeafLesions}

FloatInit ==
    /\ \E ls \in LeafPopulations, h \in FloatAreas :
         args = [leaf_lesions |->
                    [i \in 1..Len(ls) |->
                       [idx |-> i, growth_demand |-> ls[i].growth_demand,
                        status |-> ls[i].status]],
                 leaf_healthy_area |-> h]
    /\ result = <<>>
    /\ MtgAtRest /\ PlacingAtRest /\ LoopingAtRest /\ GateAtRest

\* PriorityGrowthControl.control on the leaf
PriorityOnLeaf ==
    /\ result = <<>>
    /\ result' = <<PriorityOnFloats(args.leaf_lesions, args.leaf_healthy_area)>>
    /\ UNCHANGED <<mtg, placing, looping, gate, args>>

FloatNext == PriorityOnLeaf

FloatSpec == FloatInit /\ [][FloatNext]_vars

\* the branch of lines 116-124 is the one the call takes
RemainderBranch ==
    /\ FSum(GrowthDemands(args.leaf_lesions)) > args.leaf_healthy_area
    /\ FSum(GrowthDemands(Tier(args.leaf_lesions, TRUE))) <= args.leaf_healthy_area

\* C18: whenever control() takes the remainder branch (total_demand >
\* healthy area, prior_demand <= healthy area), the assertion
\* non_prior_demand >= healthy area - prior_demand holds: control() does
\* not end with an AssertionError.
C18_AssertionHolds ==
    (result # <<>> /\ RemainderBranch) => result[1].raised # "AssertionError"

\* the offers control() made to the lesion at place i of leaf_lesions
FloatOffersTo(i) ==
    SelectSeq(result[1].calls, LAMBDA c : c.idx = i)

\* C7 on floats: PriorityGrowthControl.control calls control_growth
\* exactly once on every lesion of the leaf, in every branch.
C7_PriorityCallsEachLesionOnce ==
    result # <<>> =>
       \A i \in 1..Len(args.leaf_lesions) : Len(FloatOffersTo(i)) = 1

\* C4 on floats: in the remainder branch every prior lesion is offered its
\* full demand and every non-prior lesion is offered its share of the
\* remaining area, (healthy area - prior_demand) * demand /
\* non_prior_demand, to the rounding of the offer.
C4_RemainderServed ==
    (result # <<>> /\ RemainderBranch) =>
       LET prior_demand == FSum(GrowthDemands(Tier(args.leaf_lesions, TRUE)))
           non_prior_demand == FSum(GrowthDemands(Tier(args.leaf_lesions, FALSE)))
           remaining == FRound(args.leaf_healthy_area - prior_demand)
       IN  \A i \in 1..Len(args.leaf_lesions) :
              LET l == args.leaf_lesions[i]
              IN  /\ Len(FloatOffersTo(i)) = 1
                  /\ IF l.status >= CHLOROTIC
                     THEN FloatOffersTo(i)[1].growth_offer = l.growth_demand
                     ELSE Abs(FloatOffersTo(i)[1].growth_offer * non_prior_demand
                              - remaining * l.growth_demand)
                             <= non_prior_demand

(***************************************************************************)
(* The areas of a leaf element (disease_outputs.py), as functions of the   *)
(* properties of the element.  The ratio of senescence is a quotient of    *)
(* lengths; an area is kept as a fraction over its denominator.            *)
(***************************************************************************)
\* area, senesced_length and green_length of a leaf element
ElementAreas == {0, 80}

ElementLengths == {0, 10, 20}

\* surface_alive of a lesion
AliveSurfaces == {0, 8, 40, 50}

\* sen_lengths[vid]/(sen_lengths[vid]+green_lengths[vid]) or 0.
RatioSen(sen_length, green_length) ==
    IF sen_length + green_length > 0
    THEN <<sen_length, sen_length + green_length>>
    ELSE <<0, 1>>

\* gla[vid] of compute_green_lesion_areas_by_leaf, over the denominator of
\* the ratio rs; surfaces are the surface_alive of lesions[vid]
GreenLesionAreaByLeaf(surfaces, leaf_area, rs) ==
    LET les_surf == SumSeq(surfaces)
    IN  IF les_surf <= leaf_area
        THEN les_surf * (rs[2] - rs[1])
        ELSE les_surf * rs[2] - leaf_area * rs[1]

\* compute_healthy_area_by_leaf for one leaf element, as a fraction
HealthyAreaByLeaf(surfaces, leaf_area, sen_length, green_length) ==
    LET rs == RatioSen(sen_length, green_length)
        senesced == leaf_area * rs[1]
        green_lesion_area == GreenLesionAreaByLeaf(surfaces, leaf_area, rs)
    IN  <<leaf_area * rs[2] - (senesced + green_lesion_area), rs[2]>>

AccountInit ==
    /\ \E a \in ElementAreas, sl \in ElementLengths, gl \in ElementLengths :
       \E n \in 0..MaxLeafLesions : \E surfaces \in [1..n -> AliveSurfaces] :
         args = [area |-> a, senesced_length |-> sl, green_length |-> gl,
                 surfaces |-> surfaces]
    /\ result = <<>>
    /\ MtgAtRest /\ PlacingAtRest /\ LoopingAtRest /\ GateAtRest

\* compute_healthy_area_by_leaf(g) on the leaf element
ComputeHealthyArea ==
    /\ result = <<>>
    /\ result' = <<HealthyAreaByLeaf(args.surfaces, args.area,
                                     args.senesced_length, args.green_length)>>
    /\ UNCHANGED <<mtg, placing, looping, gate, args>>

AccountNext == ComputeHealthyArea

AccountSpec == AccountInit /\ [][AccountNext]_vars

\* C19: the healthy area that compute_healthy_area_by_leaf returns for a
\* leaf element is clamped to 0 from below, whatever the surface of the
\* lesions, larger than the area of the element included.
C19_HealthyAreaClamped ==
    result # <<>> => result[1][1] >= 0

\* the rule of compute_green_lesion_areas_by_leaf on the totals of a
\* leaf, the ratio of senescence being senesced area over area: the green
\* lesion area as a fraction
RuleGreenLesionArea(les_surf, leaf_area, leaf_senesced_area) ==
    IF les_surf <= leaf_area
    THEN IF leaf_area > 0
         THEN <<les_surf * (leaf_area - leaf_senesced_area), leaf_area>>
         ELSE <<les_surf, 1>>
    ELSE <<Max(0, les_surf - leaf_senesced_area), 1>>

\* green_lesion_area as the allocator computes it on a blade
AllocatorGreenLesionArea(b) ==
    LET leaf == Leaf(b)
    IN  GreenLesionArea(LesSurf(LeafLesions(leaf)),
                        RatioGreen(LeafSum(green_area, leaf), LeafSum(area, leaf)),
                        LeafSum(senesced_area, leaf))

\* C20: on every blade the green_lesion_area of the NoPriority and
\* Priority allocators is the one of the accountant's rule: lesion surface
\* * (1 - senescence ratio) when the lesion surface is at most the area,
\* lesion surface - senesced area (at least 0) otherwise.
C20_AllocatorAgreesWithAccountant ==
    policy \in {"NoPriority", "Priority"} =>
       \A b \in DOMAIN healthy :
          LET leaf == Leaf(b)
              mine == AllocatorGreenLesionArea(b)
              rule == RuleGreenLesionArea(LesSurf(LeafLesions(leaf)),
                                          LeafSum(area, leaf),
                                          LeafSum(senesced_area, leaf))
          IN  mine[1] * rule[2] = rule[1] * mine[2]


(***************************************************************************)
(* Competition between lesions for the green area of a blade:              *)
(* GeometricCircleCompetition and SeptoRustCompetition on an MTG that      *)
(* carries cohorts of both fungi (CompetitionSpec).                        *)
(*                                                                         *)
(* SeptoRustCompetition.control serves the septoria lesions that are       *)
(* chlorotic or older first, then the others.  Before it serves the        *)
(* others on a blade whose prioritized surface is below the green area it  *)
(* calls pdb.set_trace(): the program stops at the debugger prompt, and    *)
(* what is typed there decides whether control() goes on or ends with      *)
(* BdbQuit (which is also what an exhausted standard input gives).         *)
(***************************************************************************)
MaxCohorts == 2    \* lesions on the MTG

\* a lesion of the catalogue above, as an instance of a fungus model
OfFungus(fungus, k) ==
    [fungus |-> fungus, status |-> k.status, growth_demand |-> k.growth_demand,
     surface |-> k.surface, surface_non_senescent |-> k.surface_non_senescent,
     potential_surface |-> k.potential_surface,
     nb_lesions_non_sen |-> k.nb_lesions_non_sen]

\* a cohort of two sporulating rust pustules, nearly full grown
Cohort ==
    [fungus |-> "brown_rust", status |-> SPORULATING, growth_demand |-> 2,
     surface |-> 30, surface_non_senescent |-> 30, potential_surface |-> 32,
     nb_lesions_non_sen |-> 2]

\* an incubating rust lesion that asks for nothing this step
Dormant ==
    [fungus |-> "brown_rust", status |-> INCUBATING, growth_demand |-> 0,
     surface |-> 0, surface_non_senescent |-> 0, potential_surface |-> 36,
     nb_lesions_non_sen |-> 1]

CompetitionKinds ==
    {OfFungus("septoria", Fresh), OfFungus("septoria", Young),
     OfFungus("septoria", Grown), OfFungus("septoria", Dead), Cohort, Dormant}

\* isinstance(l, self.SeptoModel) and l.status >= l.fungus.CHLOROTIC
IsSeptoPrio(l) == Les(l).fungus = "septoria" /\ Les(l).status >= CHLOROTIC

SumOver(ls, field) == SumSeq([i \in 1..Len(ls) |-> Les(ls[i])[field]])

\* growth_control.py 343 and 360: the calls of one tier
TierOffers(ls, offer, demand) ==
    [i \in 1..Len(ls) |->
        Call(ls[i], IF demand > 0
                    THEN RoundDiv(Demand(ls[i]) * offer, demand, 1)
                    ELSE 0)]

\* what the debugger prompt of pdb.set_trace() is answered
Debuggers == {"continue", "quit"}

\* growth_control.py 328-346: the prioritized tier of a blade
SeptoPrioTier(leaf, leaf_lesions, rg, float_type) ==
    LET prio_les == SelectSeq(leaf_lesions, IsSeptoPrio)
        s_prio == SumOver(prio_les, "surface_non_senescent")
        s_pot_prio == SumOver(prio_les, "potential_surface")
        demand_prio == SumOver(prio_les, "growth_demand")
        leaf_green_area == LeafSum(green_area, leaf)
        \* nb_prio_on_green = len(prio_les) * ratio_green and the mean size
        \* s_pot_prio/len(prio_les), over the denominator of ratio_green
        true_area_prio == true_area_impacted(Len(prio_les) * rg[1], leaf_green_area,
                                             <<s_pot_prio, Len(prio_les) * rg[2]>>)
        border == manage_senescence_border(leaf, <<leaf_green_area, s_prio>>)
        still == [true_area_prio |-> 0, calls |-> <<>>, responses |-> <<>>,
                  senesced |-> senesced_lengths, raised |-> "none"]
    IN  IF Len(prio_les) > 0
        THEN IF RoundDiv(s_prio, 1, Q16) < RoundDiv(leaf_green_area, 1, Q16)
             THEN [still EXCEPT
                     !.true_area_prio = true_area_prio,
                     !.calls = TierOffers(prio_les, true_area_prio - s_prio,
                                          demand_prio)]
             ELSE IF s_prio = 0
                  THEN IF float_type = "float"
                       THEN [still EXCEPT !.raised = "ZeroDivisionError"]
                       ELSE [still EXCEPT
                               !.calls = TierOffers(prio_les, 0, demand_prio)]
                  ELSE IF RoundDiv(leaf_green_area * ONE, s_prio, Q14) < ONE
                       THEN IF border.raised # "none"
                            THEN [still EXCEPT !.senesced = border.senesced,
                                               !.responses = border.responses,
                                               !.raised = border.raised]
                            ELSE [still EXCEPT
                                    !.senesced = border.senesced,
                                    !.responses = border.responses,
                                    !.calls = TierOffers(prio_les, 0, demand_prio)]
                       ELSE [still EXCEPT
                               !.calls = TierOffers(prio_les, 0, demand_prio)]
        ELSE still

\* growth_control.py 355: offer_non_prio
OfferNonPrio(leaf, leaf_lesions, rg, true_area_prio) ==
    LET prio_les == SelectSeq(leaf_lesions, IsSeptoPrio)
        non_prio_les == SelectSeq(leaf_lesions, LAMBDA l : ~IsSeptoPrio(l))
        nb_les == Len(non_prio_les) + Len(prio_les)
        s_pot == SumOver(leaf_lesions, "potential_surface")
        true_area_non_prio == true_area_impacted(nb_les * rg[1],
                                                 LeafSum(green_area, leaf),
                                                 <<s_pot, nb_les * rg[2]>>)
    IN  true_area_non_prio - SumOver(non_prio_les, "surface_non_senescent")
            - true_area_prio

\* growth_control.py 299-361: SeptoRustCompetition.control on one blade
SeptoRustBlade(blade, float_type, debugger) ==
    LET leaf == Leaf(blade)
        leaf_lesions == LeafLesions(leaf)
        rg == RatioGreen(LeafSum(green_area, leaf), LeafSum(area, leaf))
        prio_les == SelectSeq(leaf_lesions, IsSeptoPrio)
        non_prio_les == SelectSeq(leaf_lesions, LAMBDA l : ~IsSeptoPrio(l))
        s_prio == SumOver(prio_les, "surface_non_senescent")
        prio == SeptoPrioTier(leaf, leaf_lesions, rg, float_type)
        trap == RoundDiv(s_prio, 1, Q16)
                    < RoundDiv(LeafSum(green_area, leaf), 1, Q16)
        served == [healthy |-> {}, calls |-> prio.calls,
                   responses |-> prio.responses, senesced |-> prio.senesced,
                   raised |-> prio.raised, suspended |-> FALSE]
    IN  IF Len(leaf) > 0
        THEN IF prio.raised # "none" \/ Len(non_prio_les) = 0
             THEN served
             ELSE IF trap /\ debugger = "quit"
                  THEN [served EXCEPT !.suspended = TRUE, !.raised = "BdbQuit"]
                  ELSE [served EXCEPT
                          !.suspended = trap,
                          !.calls = prio.calls \o
                              TierOffers(non_prio_les,
                                         OfferNonPrio(leaf, leaf_lesions, rg,
                                                      prio.true_area_prio),
                                         SumOver(non_prio_les, "growth_demand"))]
        ELSE [healthy |-> {}, calls |-> <<>>, responses |-> <<>>,
              senesced |-> senesced_lengths, raised |-> "none",
              suspended |-> FALSE]

SeptoRustControl ==
    Control("SeptoRust",
            {[b \in Blades |-> SeptoRustBlade(b, float_type, debugger)] :
                float_type \in FloatTypes, debugger \in Debuggers})

\* the infections that put at most n lesions of the catalogue on the MTG,
\* in the order they happened
Infections(n) == UNION {[1..k -> Hosts \X CompetitionKinds] : k \in 0..n}

\* the lesions of vertex v after the infections inf
RECURSIVE LesionsOn(_, _)
LesionsOn(inf, v) ==
    IF inf = <<>> THEN <<>>
    ELSE IF Head(inf)[1] = v THEN <<Head(inf)[2]>> \o LesionsOn(Tail(inf), v)
         ELSE LesionsOn(Tail(inf), v)

\* The MTG when control() is called: any canopy, at most MaxCohorts
\* lesions on the leaf elements.
CompetitionInit ==
    /\ \E c \in Canopies :
         /\ geometry = {v \in Vertices : c[v].geom}
         /\ area = [v \in Vertices |-> c[v].area]
         /\ green_area = [v \in Vertices |-> c[v].green_area]
         /\ senesced_area = [v \in Vertices |-> c[v].senesced_area]
         /\ lengths = [v \in Vertices |-> c[v].length]
         /\ senesced_lengths = [v \in Vertices |-> c[v].senesced_length]
    /\ \E inf \in Infections(MaxCohorts) :
         lesions = [v \in Vertices |-> LesionsOn(inf, v)]
    /\ policy = "none"
    /\ healthy = NoHealthy
    /\ calls = NoCalls
    /\ responses = NoCalls
    /\ raised = NoRaise
    /\ suspended = {}
    /\ PlacingAtRest /\ LoopingAtRest /\ GateAtRest /\ ComputingAtRest

CompetitionNext ==
    \/ NoPriorityControl
    \/ PriorityControl
    \/ GeometricControl
    \/ SeptoRustControl

CompetitionSpec == CompetitionInit /\ [][CompetitionNext]_vars

(***************************************************************************)
(* Reading the trace of a competition control().                           *)
(***************************************************************************)
NonSenSurface(b) == SumOver(BladeLesions(b), "surface_non_senescent")

GreenArea(b) == LeafSum(green_area, Leaf(b))

\* control() processed blade b: no other blade ended it
Processed(b) == \A o \in Blades \ {b} : raised[o] = "none"

\* manage_senescence_border ran on blade b
BorderRan(b) == responses[b] # <<>> \/ raised[b] \in {"KeyError", "IndexError"}

(***************************************************************************)
(* C21.  Geometric: on a blade whose non-senescent lesion surface is at    *)
(* least its green area, every lesion is offered exactly 0 in that         *)
(* control(), and the senescence border is reconciled if and only if       *)
(* green area / non-senescent surface is strictly below 1.                 *)
(* The code divides by a surface of 0, skips the blade whose lesions are   *)
(* all senescent, and its reconciliation raises on a leaf element without  *)
(* lesion.                                                                 *)
(***************************************************************************)
C21_SaturatedBladeOffersZero ==
    policy = "Geometric" =>
        \A b \in Blades :
            (/\ Processed(b)
             /\ BladeLesions(b) # <<>>
             /\ NonSenSurface(b) >= GreenArea(b)) =>
                /\ \A l \in Range(BladeLesions(b)) : OfferedOnce(l, 0)
                /\ BorderRan(b) <=> GreenArea(b) < NonSenSurface(b)

\* the sum of nb_lesions_non_sen over the lesions of blade b
NbNonSen(b) == SumOver(BladeLesions(b), "nb_lesions_non_sen")

\* the offer of Geometric for blade b (growth_control.py 232-239)
BladeOffer(b) ==
    IF NonSenSurface(b) < GreenArea(b)
    THEN true_area_impacted(NbNonSen(b), GreenArea(b),
                            <<SumOver(BladeLesions(b), "potential_surface"),
                              NbNonSen(b)>>) - NonSenSurface(b)
    ELSE 0

\* Geometric made its offers on blade b
GeometricServed(b) ==
    /\ policy = "Geometric"
    /\ Processed(b) /\ raised[b] = "none"
    /\ NbNonSen(b) > 0

\* x is the rational num/den to the nearest unit
IsNearest(x, num, den) == 2 * Abs(x * den - num) <= den

(***************************************************************************)
(* C22.  Geometric, blade offer <= 0: every lesion l of the blade is       *)
(* offered offer * l.nb_lesions_non_sen / nb_lesions, its share by its own *)
(* count of non-senescent lesions, so that the offers of the blade sum to  *)
(* the blade offer.                                                        *)
(* The code takes the count of the last lesion of the blade for every      *)
(* lesion.                                                                 *)
(***************************************************************************)
C22_ShareByOwnCount ==
    \A b \in Blades :
        (GeometricServed(b) /\ BladeOffer(b) <= 0) =>
            /\ \A l \in Range(BladeLesions(b)) :
                  /\ Len(OffersTo(l)) = 1
                  /\ IsNearest(OffersTo(l)[1],
                               BladeOffer(b) * Les(l).nb_lesions_non_sen,
                               NbNonSen(b))
            /\ Abs(SumOffers(b) - BladeOffer(b)) <= Len(BladeLesions(b))

(***************************************************************************)
(* C23.  Geometric, non-senescent surface below the green area and blade   *)
(* offer > 0: the blade offer is the impacted area less the non-senescent  *)
(* surface, every lesion is offered growth_demand * offer / total_demand,  *)
(* and the offers of the blade sum to the blade offer when total_demand is *)
(* positive; they are all 0 when total_demand is 0.  Quotients are taken   *)
(* to the nearest unit of the arithmetic.                                  *)
(***************************************************************************)
C23_ShareByDemand ==
    \A b \in Blades :
        (/\ GeometricServed(b)
         /\ NonSenSurface(b) < GreenArea(b)
         /\ BladeOffer(b) > 0) =>
            \A l \in Range(BladeLesions(b)) :
                /\ Len(OffersTo(l)) = 1
                /\ IF TotalDemand(BladeLesions(b)) > 0
                   THEN /\ IsNearest(OffersTo(l)[1], Demand(l) * BladeOffer(b),
                                     TotalDemand(BladeLesions(b)))
                        /\ 2 * Abs(SumOffers(b) - BladeOffer(b))
                              <= Len(BladeLesions(b))
                   ELSE OffersTo(l)[1] = 0

\* two lesions of different demands share a positive blade offer
C23_Witness ==
    \E b \in Blades :
        /\ GeometricServed(b)
        /\ NonSenSurface(b) < GreenArea(b)
        /\ BladeOffer(b) > 0
        /\ \E l, m \in Range(BladeLesions(b)) :
              /\ Demand(l) > Demand(m) /\ Demand(m) > 0
              /\ OffersTo(l)[1] > OffersTo(m)[1]
              /\ OffersTo(m)[1] > 0

\* a blade whose lesions ask for nothing is offered nothing of its offer
C23_WitnessNoDemand ==
    \E b \in Blades :
        /\ GeometricServed(b)
        /\ BladeOffer(b) > 0
        /\ TotalDemand(BladeLesions(b)) = 0
        /\ SumOffers(b) = 0

\* Geometric reached the reconciliation of the senescence border on blade b
\* (growth_control.py 240-244)
BorderTriggered(b) ==
    /\ policy = "Geometric"
    /\ Processed(b)
    /\ NbNonSen(b) > 0
    /\ NonSenSurface(b) > 0
    /\ NonSenSurface(b) >= GreenArea(b)
    /\ RoundDiv(GreenArea(b) * ONE, NonSenSurface(b), Q14) < ONE

\* the senescence_response calls that lesion l received
ResponsesTo(b, l) ==
    SelectSeq(responses[b], LAMBDA c : c.vid = l[1] /\ c.idx = l[2])

(***************************************************************************)
(* C24.  Whenever the reconciliation of the senescence border is triggered *)
(* on a blade, it ends without error and has called senescence_response   *)
(* exactly once on every lesion of the blade, with the updated senesced    *)
(* length of the lesion's own leaf element; also on a blade where some     *)
(* leaf elements carry no lesion.                                          *)
(* The code looks every leaf element up in the dictionary of the vertices  *)
(* that have lesions.                                                      *)
(***************************************************************************)
C24_BorderAnswersEveryLesion ==
    \A b \in Blades :
        BorderTriggered(b) =>
            /\ raised[b] = "none"
            /\ \A l \in Range(BladeLesions(b)) :
                  /\ Len(ResponsesTo(b, l)) = 1
                  /\ ResponsesTo(b, l)[1].senesced_length = senesced_lengths[l[1]]

(***************************************************************************)
(* Reading the trace of SeptoRustCompetition.control.                      *)
(***************************************************************************)
Prio(b) == SelectSeq(BladeLesions(b), IsSeptoPrio)

NonPrio(b) == SelectSeq(BladeLesions(b), LAMBDA l : ~IsSeptoPrio(l))

BladeRatioGreen(b) == RatioGreen(GreenArea(b), LeafSum(area, Leaf(b)))

\* the impacted area of the prioritized tier of blade b, 0 when the tier is
\* empty or saturated
PrioImpacted(b) ==
    IF Prio(b) # <<>> /\ SumOver(Prio(b), "surface_non_senescent") < GreenArea(b)
    THEN true_area_impacted(Len(Prio(b)) * BladeRatioGreen(b)[1], GreenArea(b),
                            <<SumOver(Prio(b), "potential_surface"),
                              Len(Prio(b)) * BladeRatioGreen(b)[2]>>)
    ELSE 0

\* impacted area over all the lesions of blade b, less the non-prioritized
\* non-senescent surface, less the impacted area of the prioritized tier
NetOffer(b) ==
    true_area_impacted(Len(BladeLesions(b)) * BladeRatioGreen(b)[1], GreenArea(b),
                       <<SumOver(BladeLesions(b), "potential_surface"),
                         Len(BladeLesions(b)) * BladeRatioGreen(b)[2]>>)
        - SumOver(NonPrio(b), "surface_non_senescent") - PrioImpacted(b)

SumOffersTo(ls) == SumSeq([i \in 1..Len(ls) |-> SumSeq(OffersTo(ls[i]))])

(***************************************************************************)
(* C25.  SeptoRust: on every blade with non-prioritized lesions, the area  *)
(* offered to them in total is the impacted area over all the lesions of   *)
(* the blade, less their non-senescent surface, less the impacted area of  *)
(* the prioritized tier (0 when that tier is empty or saturated), and each *)
(* of them is offered its share of it by growth demand.  Stated for a      *)
(* positive non-prioritized demand.                                        *)
(* The code stops in the debugger before these offers whenever the         *)
(* prioritized surface is below the green area.                            *)
(***************************************************************************)
C25_NonPrioritizedOffer ==
    policy = "SeptoRust" =>
        \A b \in Blades :
            (/\ Processed(b)
             /\ NonPrio(b) # <<>>
             /\ SumOver(NonPrio(b), "growth_demand") > 0) =>
                /\ \A l \in Range(NonPrio(b)) :
                      /\ Len(OffersTo(l)) = 1
                      /\ IsNearest(OffersTo(l)[1], Demand(l) * NetOffer(b),
                                   SumOver(NonPrio(b), "growth_demand"))
                /\ 2 * Abs(SumOffersTo(NonPrio(b)) - NetOffer(b)) <= Len(NonPrio(b))

\* The offers of C25 where control() is let through: no exception, and the
\* debugger, where it stopped, was told to continue.
C25_OfferWhenLetThrough ==
    policy = "SeptoRust" =>
        \A b \in Blades :
            (/\ Processed(b) /\ raised[b] = "none"
             /\ NonPrio(b) # <<>>
             /\ SumOver(NonPrio(b), "growth_demand") > 0) =>
                /\ \A l \in Range(NonPrio(b)) :
                      /\ Len(OffersTo(l)) = 1
                      /\ IsNearest(OffersTo(l)[1], Demand(l) * NetOffer(b),
                                   SumOver(NonPrio(b), "growth_demand"))
                /\ 2 * Abs(SumOffersTo(NonPrio(b)) - NetOffer(b)) <= Len(NonPrio(b))

(***************************************************************************)
(* C30.  SeptoRust: control() runs to its end without stopping for input   *)
(* from outside: on every blade, also one whose prioritized surface is     *)
(* below the green area or that has no prioritized lesion, every lesion    *)
(* receives its control_growth call, and control() returns.                *)
(* The code calls pdb.set_trace() on exactly those blades.                 *)
(***************************************************************************)
C30_RunsToCompletion ==
    policy = "SeptoRust" =>
        /\ suspended = {}
        /\ raised = NoRaise
        /\ \A b \in Blades :
              \A l \in Range(BladeLesions(b)) : Len(OffersTo(l)) = 1

\* The stop in the debugger alone refutes C30: control() was told to
\* continue, nothing was raised, every lesion was served.
C30_NeverSuspends ==
    (policy = "SeptoRust" /\ raised = NoRaise) => suspended = {}

(***************************************************************************)
(* The offers of a control() had the lesions of a blade come in another    *)
(* order.                                                                  *)
(***************************************************************************)
\* the orders in which the lesions ls can come
Reorderings(ls) ==
    {[i \in 1..Len(ls) |-> ls[p[i]]] :
        p \in {q \in [1..Len(ls) -> 1..Len(ls)] :
                  \A i, j \in 1..Len(ls) : q[i] = q[j] => i = j}}

\* the calls the last control() makes on blade b for its lesions in order ls
CallsFor(b, ls) ==
    CASE policy = "NoPriority" -> NoPriorityOffers(ls, healthy[b]).calls
      [] policy = "Priority" -> PriorityOffers(ls, healthy[b]).calls
      [] OTHER -> GeometricOffers(ls, BladeOffer(b), TotalDemand(ls), NbNonSen(b))

\* the last control() made its offers on blade b
Served(b) ==
    /\ policy \in {"NoPriority", "Priority", "Geometric"}
    /\ Processed(b) /\ raised[b] = "none"
    /\ calls[b] # <<>>

(***************************************************************************)
(* C26.  NoPriority, Priority and Geometric: within one control() on a     *)
(* blade, the offer of every lesion is a function of the demands, surfaces *)
(* and areas as they were before the first control_growth call on the      *)
(* blade: it is the same in whatever order the lesions of the blade are    *)
(* listed.                                                                 *)
(* Geometric shares a negative offer by the count of the lesion that comes *)
(* last in the list.                                                       *)
(***************************************************************************)
C26_OffersIndependentOfOrder ==
    \A b \in Blades :
        Served(b) =>
            \A ls \in Reorderings(BladeLesions(b)) :
                \A l \in Range(BladeLesions(b)) :
                    OffersIn(CallsFor(b, ls), l) = OffersTo(l)

\* C26 for NoPriority and Priority alone
C26_RationingIndependentOfOrder ==
    \A b \in Blades :
        (Served(b) /\ policy # "Geometric") =>
            \A ls \in Reorderings(BladeLesions(b)) :
                \A l \in Range(BladeLesions(b)) :
                    OffersIn(CallsFor(b, ls), l) = OffersTo(l)

(***************************************************************************)
(* C27.  NoPriority and Priority, demands >= 0: every offer passed to      *)
(* control_growth is at least 0 and at most the growth demand of the       *)
(* lesion it is passed to, in every branch.                                *)
(* A rationed offer is rounded to 14 decimals, and the rounding can lift   *)
(* it above a demand that lies off that grid.                              *)
(***************************************************************************)
C27_OfferWithinDemand ==
    policy \in {"NoPriority", "Priority"} =>
        \A b \in Blades :
            \A i \in 1..Len(calls[b]) :
                /\ 0 <= calls[b][i].growth_offer
                /\ calls[b][i].growth_offer
                      <= Demand(<<calls[b][i].vid, calls[b][i].idx>>)

\* C27 up to the rounding: no offer is more than half a 14-decimal step
\* above the demand
C27_OfferWithinRoundedDemand ==
    policy \in {"NoPriority", "Priority"} =>
        \A b \in Blades :
            \A i \in 1..Len(calls[b]) :
                /\ 0 <= calls[b][i].growth_offer
                /\ 2 * (calls[b][i].growth_offer
                           - Demand(<<calls[b][i].vid, calls[b][i].idx>>)) < Q14


(***************************************************************************)
(* manage_senescence_border as a function of the lengths of the leaf       *)
(* elements of a blade, on rounding floats (BorderSpec).                   *)
(*                                                                         *)
(* The lengths are floats, their sums and differences are rounded as the   *)
(* program's are.  The loop takes the new senesced length off the leaf     *)
(* elements from the last one down, and stops when nothing is left of it.  *)
(***************************************************************************)
MaxElements == 3    \* leaf elements of the blade

\* lengths of leaf elements that are floats
FloatLengths == {x \in {1, 4, 7} : FRound(x) = x}

\* r = leaf_green_area / les_surf_non_sen where the border is managed
Ratios == {<<0, 1>>, <<1, 2>>, <<3, 4>>}

\* growth_control.py 196-200 with idx = -k
RECURSIVE RedistributeOnFloats(_, _, _, _)
RedistributeOnFloats(s_ls, t_ls, new_length, k) ==
    IF new_length > 0
    THEN IF k > Len(t_ls)
         THEN [s_ls |-> s_ls, raised |-> "IndexError"]
         ELSE LET at == Len(t_ls) + 1 - k
                  n_l == Min(t_ls[at], new_length)
              IN  RedistributeOnFloats([s_ls EXCEPT ![at] = n_l], t_ls,
                                       FRound(new_length - n_l), k + 1)
    ELSE [s_ls |-> s_ls, raised |-> "none"]

\* growth_control.py 190-200: the senesced lengths after the loop
BorderOnFloats(s_ls, t_ls, r) ==
    LET s_l == FSum(s_ls)
        t_l == FSum(t_ls)
        new_length == FRound(t_l - FRound(RoundDiv(r[1] * (t_l - s_l), r[2], 1)))
        loop == RedistributeOnFloats(s_ls, t_ls, new_length, 1)
    IN  [new_length |-> new_length, s_ls |-> loop.s_ls, raised |-> loop.raised]

\* The leaf elements of a blade: every senesced length is at most the
\* length of its element.
BorderInit ==
    /\ \E n \in 1..MaxElements :
       \E t_ls \in [1..n -> FloatLengths], s_ls \in [1..n -> FloatLengths \cup {0}],
          r \in Ratios :
         /\ \A i \in 1..n : s_ls[i] <= t_ls[i]
         /\ args = [lengths |-> t_ls, senesced_lengths |-> s_ls, r |-> r]
    /\ result = <<>>
    /\ MtgAtRest /\ PlacingAtRest /\ LoopingAtRest /\ GateAtRest

ManageBorder ==
    /\ result = <<>>
    /\ result' = <<BorderOnFloats(args.senesced_lengths, args.lengths, args.r)>>
    /\ UNCHANGED <<mtg, placing, looping, gate, args>>

BorderNext == ManageBorder

BorderSpec == BorderInit /\ [][BorderNext]_vars

\* the lengths are small enough for the floats to carry every sum and
\* difference of the border exactly
ExactSums ==
    /\ SumSeq(args.lengths) < 2^MANT
    /\ (args.r[1] * (SumSeq(args.lengths) - SumSeq(args.senesced_lengths)))
          % args.r[2] = 0

(***************************************************************************)
(* C28.  manage_senescence_border, 0 <= r < 1, every senesced length at    *)
(* most the length of its element: the loop ends without indexing before   *)
(* the first leaf element; afterwards every senesced length is at most the *)
(* length of its element, the senesced lengths of the blade sum to         *)
(* new_length = t_l - r * (t_l - s_l), and they fill the blade from the    *)
(* last element towards the first.                                         *)
(* The rounded sum of the lengths can exceed what the elements hold, and   *)
(* the loop leaves the elements it does not reach as they were.            *)
(***************************************************************************)
C28_BorderFilledFromTheTip ==
    result # <<>> =>
        /\ result[1].raised = "none"
        /\ \A i \in 1..Len(args.lengths) : result[1].s_ls[i] <= args.lengths[i]
        /\ SumSeq(result[1].s_ls) = result[1].new_length
        /\ \A i, j \in 1..Len(args.lengths) :
              (i < j /\ result[1].s_ls[i] > 0) =>
                  result[1].s_ls[j] = args.lengths[j]

\* C28 where the floats carry every sum exactly: no index error, no
\* senesced length above the length of its element
C28_ExactLoopStaysInside ==
    (result # <<>> /\ ExactSums) =>
        /\ result[1].raised = "none"
        /\ \A i \in 1..Len(args.lengths) : result[1].s_ls[i] <= args.lengths[i]

\* C28 where the floats carry every sum exactly: the total is new_length
C28_ExactTotal ==
    (result # <<>> /\ ExactSums) =>
        SumSeq(result[1].s_ls) = result[1].new_length


(***************************************************************************)
(* C29.  After BiotrophDUProbaModel.control has returned, every active     *)
(* dispersal unit left on a leaf element of a blade has the status         *)
(* 'deposited' (no active unit with the status 'emitted' is left), and     *)
(* every unit left was in the list of that leaf element before the call.   *)
(***************************************************************************)
C29_OnlyDepositedUnitsLeft ==
    placement # <<>> =>
       \A b \in Blades : \A v \in Range(PlacementLeaf(b)) :
          \A i \in 1..Len(dispersal_units[v]) :
             /\ dispersal_units[v][i].is_active =>
                   dispersal_units[v][i].status = "deposited"
             /\ \E j \in 1..Len(placement[1][v]) :
                   placement[1][v][j].id = dispersal_units[v][i].id

\* control() found an emitted unit beside a deposited one on a leaf element
\* of a blade with healthy area, and left both, deposited
C29_Witness ==
    /\ placement # <<>>
    /\ \E b \in Blades : \E v \in Range(PlacementLeaf(b)) :
         /\ ActiveWith(placement[1][v], "deposited") # <<>>
         /\ \E i \in 1..Len(dispersal_units[v]) :
               /\ dispersal_units[v][i].status = "deposited"
               /\ \E j \in 1..Len(placement[1][v]) :
                     /\ placement[1][v][j].id = dispersal_units[v][i].id
                     /\ placement[1][v][j].is_active
                     /\ placement[1][v][j].status = "emitted"

\* control() found an inactive emitted unit and no active one on a leaf
\* element: the list is left as it was
C29_WitnessInactive ==
    /\ placement # <<>>
    /\ \E b \in Blades : \E v \in Range(PlacementLeaf(b)) :
         /\ ~RatioIsZero(HealthyRatio(b))
         /\ HasStatus(dispersal_units[v], "emitted")
         /\ dispersal_units[v] = placement[1][v]

====
